---- MODULE Spec2Model ----
(***************************************************************************)
(* ClawTrace: the JSONL trace store, the recorder, the session-log         *)
(* importer and the coordinator's sub-agent tree, as state machines.       *)
(*                                                                         *)
(* Time is a tick counter; a calendar day is TicksPerDay ticks long.       *)
(* A JavaScript object is a function from a set of keys to values; a value *)
(* is <<v>> and the JavaScript value undefined is <<>>.  A property that   *)
(* is absent is a key outside the function's domain.                       *)
(***************************************************************************)
EXTENDS Integers, Sequences, FiniteSets, TLC

\* ------------------------------------------------------------------ bounds
TicksPerDay == 2
MaxDay == 1
MaxRecords == 2
MaxWraps == 2
MaxLogLines == 2
MaxStack == 5

MaxNow == (MaxDay + 1) * TicksPerDay - 1
Days == 0..MaxDay

VARIABLES now,        \* the clock (Date.now())
          traceFiles, \* <tracesDir>/<day>.jsonl, one file per day
          wraps,      \* the wrap calls: where each one stands
          logs,       \* the session log directory: one line sequence per file
          imp,        \* what the previous import run saw (history)
          lastOp,     \* the operation that ran last, its arguments and result
          memFiles,   \* <memoryDir>/<day>.jsonl, one file per day
          crons,      \* the wrapCron calls: where each one stands
          config,     \* <rootDir>/.clawtrace.json
          pending,    \* an updateTrace of another process between its read and its write
          doc         \* a SKILL.md document

vars == <<now, traceFiles, wraps, logs, imp, lastOp, memFiles, crons, config, pending, doc>>

\* ------------------------------------------------------- JavaScript values
Undef == <<>>
Some(v) == <<v>>

\* o[k] of JavaScript: undefined for an absent property
Get(o, k) == IF k \in DOMAIN o THEN o[k] ELSE Undef

\* the update replacing the record instead of being merged over it
Spread_Replace(a, b) == b

\* { ...a, ...b }
Spread(a, b) == [k \in (DOMAIN a) \cup (DOMAIN b) |-> IF k \in DOMAIN b THEN b[k] ELSE a[k]]

\* JSON.stringify of an object: the text lists the properties whose value is
\* not undefined, each with its bare value
JsonStringify(o) == [json |-> [k \in {x \in DOMAIN o : o[x] # Undef} |-> o[k][1]]]

\* JSON.parse of such a text: an object with exactly the listed properties
JsonParse(text) == [k \in DOMAIN text.json |-> Some(text.json[k])]

\* new Date(t).toISOString(): the UTC text of an instant
ToISOString(t) == [local |-> t, off |-> 0]

\* new Date(text): the instant an ISO text denotes
DateOf(ts) == ts.local - ts.off

\* string comparison a < b of two ISO texts: the calendar fields come first
IsoTextLess(a, b) == \/ a.local < b.local
                     \/ a.local = b.local /\ a.off < b.off

\* ------------------------------------------------------------ file contents
\* a file is NoFile or a sequence of chunks: a JSON text (one object), or NL
NoFile == [exists |-> FALSE, chunks |-> <<>>]
FileOf(chunks) == [exists |-> TRUE, chunks |-> chunks]
NL == [nl |-> TRUE]
IsJsonText(chunk) == DOMAIN chunk = {"json"}

RECURSIVE SplitFrom(_, _, _, _)
SplitFrom(chunks, i, cur, acc) ==
  IF i > Len(chunks) THEN Append(acc, cur)
  ELSE IF chunks[i] = NL THEN SplitFrom(chunks, i + 1, <<>>, Append(acc, cur))
  ELSE SplitFrom(chunks, i + 1, Append(cur, chunks[i]), acc)

\* content.split('\n')
SplitNL(chunks) == SplitFrom(chunks, 1, <<>>, <<>>)

\* a line parses when it is exactly one JSON text
LineParses(seg) == Len(seg) = 1 /\ IsJsonText(seg[1])

dateKey(t) == t \div TicksPerDay

\* readLines without the existsSync test: reading a missing file throws
readLines_NoExistsCheck(file) ==
  IF ~file.exists THEN [ok |-> FALSE, recs |-> <<>>]
  ELSE LET segs == SelectSeq(SplitNL(file.chunks), LAMBDA s : Len(s) > 0)
       IN IF \A i \in 1..Len(segs) : LineParses(segs[i])
          THEN [ok |-> TRUE, recs |-> [i \in 1..Len(segs) |-> JsonParse(segs[i][1])]]
          ELSE [ok |-> FALSE, recs |-> <<>>]

\* readLines: [ok, recs]; ok = FALSE when JSON.parse throws
readLines(file) ==
  IF ~file.exists THEN [ok |-> TRUE, recs |-> <<>>]
  ELSE LET segs == SelectSeq(SplitNL(file.chunks), LAMBDA s : Len(s) > 0)
       IN IF \A i \in 1..Len(segs) : LineParses(segs[i])
          THEN [ok |-> TRUE, recs |-> [i \in 1..Len(segs) |-> JsonParse(segs[i][1])]]
          ELSE [ok |-> FALSE, recs |-> <<>>]

\* appendLine without the line terminator
appendLine_NoNewline(file, record) == FileOf(file.chunks \o <<JsonStringify(record)>>)

\* appendLine: fs.appendFileSync(filePath, JSON.stringify(record) + '\n')
appendLine(file, record) == FileOf(file.chunks \o <<JsonStringify(record), NL>>)

RECURSIVE JoinNL(_, _)
JoinNL(recs, i) ==
  IF i > Len(recs) THEN <<>>
  ELSE IF i = Len(recs) THEN <<JsonStringify(recs[i])>>
  ELSE <<JsonStringify(recs[i]), NL>> \o JoinNL(recs, i + 1)

\* records.findIndex((r) => r.id === id); 0 stands for -1
findIndex(recs, id) ==
  IF \E i \in 1..Len(recs) : Get(recs[i], "id") = Some(id)
  THEN CHOOSE i \in 1..Len(recs) :
         /\ Get(recs[i], "id") = Some(id)
         /\ \A j \in 1..(i - 1) : Get(recs[j], "id") # Some(id)
  ELSE 0

\* appendTrace writing the file anew instead of appending to it
appendTrace_Overwrite(files, trace, t) ==
  [files EXCEPT ![dateKey(t)] = FileOf(<<JsonStringify(trace), NL>>)]

\* appendTrace(trace, date): the files after the call
appendTrace(files, trace, t) ==
  [files EXCEPT ![dateKey(t)] = appendLine(files[dateKey(t)], trace)]

\* a read that skips the lines JSON.parse rejects
readTraces_SkipBad(files, t) ==
  LET segs == SelectSeq(SplitNL(files[dateKey(t)].chunks), LAMBDA s : LineParses(s))
  IN [ok |-> TRUE, recs |-> [i \in 1..Len(segs) |-> JsonParse(segs[i][1])]]

\* readTraces(date)
readTraces(files, t) == readLines(files[dateKey(t)])

\* appendCronRecord(record, date): the trace file of the day, with the discriminator
appendCronRecord(files, record, t) ==
  [files EXCEPT ![dateKey(t)] = appendLine(@, Spread([_type |-> Some("cron")], record))]

\* readCronRecords(date): the lines tagged 'cron', without the tag
readCronRecords(files, t) ==
  LET read == readLines(files[dateKey(t)])
      tagged == SelectSeq(read.recs, LAMBDA r : Get(r, "_type") = Some("cron"))
  IN [ok |-> read.ok,
      recs |-> [i \in 1..Len(tagged) |-> [k \in DOMAIN tagged[i] \ {"_type"} |-> tagged[i][k]]]]

\* a.localeCompare(b) < 0 on two ISO texts
localeCompareLess(a, b) == IsoTextLess(a, b)

\* the pairs of elements of a list, from which a comparator picks the pairs
\* (a, b) with compare(a, b) < 0
Pairs(arr) == {arr[i] : i \in 1..Len(arr)} \X {arr[i] : i \in 1..Len(arr)}

\* Array.prototype.sort with a comparator (stable), before being the pairs the
\* comparator puts in this order: x goes behind the elements that do not sort
\* after it
RECURSIVE sortFrom(_, _, _, _)
sortFrom(arr, i, before, done) ==
  IF i > Len(arr) THEN done
  ELSE LET x == arr[i]
           k == Cardinality({j \in 1..Len(done) : <<x, done[j]>> \notin before})
       IN sortFrom(arr, i + 1, before,
                   SubSeq(done, 1, k) \o <<x>> \o SubSeq(done, k + 1, Len(done)))

sort(arr, before) == sortFrom(arr, 1, before, <<>>)

\* appendMemoryChange(change, date)
appendMemoryChange(files, change, t) ==
  [files EXCEPT ![dateKey(t)] = appendLine(@, change)]

\* readMemoryChanges(date)
readMemoryChanges(files, t) == readLines(files[dateKey(t)])

\* a window read that looks at today's file only
readMemoryChangesLastHours_TodayOnly(files, hours, t) ==
  LET cutoff == t - hours
      today == readMemoryChanges(files, t)
      inWindow(recs) == SelectSeq(recs, LAMBDA r : DateOf(Get(r, "time")[1]) >= cutoff)
  IN [ok |-> today.ok,
      recs |-> sort(inWindow(today.recs),
                    {p \in Pairs(today.recs) :
                       localeCompareLess(Get(p[1], "time")[1], Get(p[2], "time")[1])})]

\* readMemoryChangesLastHours(hours) at instant t; hours and the day of
\* 86_400_000 ms are counted in ticks
readMemoryChangesLastHours(files, hours, t) ==
  LET cutoff == t - hours
      today == readMemoryChanges(files, t)
      yesterday == readMemoryChanges(files, t - TicksPerDay)
      inWindow(recs) == SelectSeq(recs, LAMBDA r : DateOf(Get(r, "time")[1]) >= cutoff)
  IN [ok |-> today.ok /\ yesterday.ok,
      recs |-> sort(inWindow(today.recs) \o inWindow(yesterday.recs),
                    {p \in Pairs(today.recs \o yesterday.recs) :
                       localeCompareLess(Get(p[1], "time")[1], Get(p[2], "time")[1])})]

\* updateTrace rewriting the file before it looks for the id
updateTrace_WriteOnMiss(files, id, updates, t) ==
  LET d == dateKey(t)
      rd == readLines(files[d])
      idx == findIndex(rd.recs, id)
      recs == IF idx = 0 THEN rd.recs
              ELSE [rd.recs EXCEPT ![idx] = Spread(rd.recs[idx], updates)]
  IN IF ~rd.ok THEN [files |-> files, ret |-> "throw"]
     ELSE [files |-> [files EXCEPT ![d] = FileOf(JoinNL(recs, 1) \o <<NL>>)],
           ret |-> IF idx = 0 THEN "false" ELSE "true"]

\* updateTrace(id, updates, date): [files, ret], ret in {"true", "false", "throw"}
updateTrace(files, id, updates, t) ==
  LET d == dateKey(t)
      rd == readLines(files[d])
      idx == findIndex(rd.recs, id)
  IN IF ~rd.ok THEN [files |-> files, ret |-> "throw"]
     ELSE IF idx = 0 THEN [files |-> files, ret |-> "false"]
     ELSE LET recs == [rd.recs EXCEPT ![idx] = Spread(rd.recs[idx], updates)]
          IN [files |-> [files EXCEPT ![d] = FileOf(JoinNL(recs, 1) \o <<NL>>)],
              ret |-> "true"]

\* number of lines of a partition file
RECURSIVE TotalLines(_, _)
TotalLines(files, ds) ==
  IF ds = {} THEN 0
  ELSE LET d == CHOOSE x \in ds : TRUE
       IN Cardinality({i \in 1..Len(files[d].chunks) : files[d].chunks[i] = NL})
            + TotalLines(files, ds \ {d})

\* the model stops appending once the store holds max lines
HasRoom(max) == TotalLines(traceFiles, DOMAIN traceFiles) < max

\* ------------------------------------------------------------------- ids
\* generateId(): `${Date.now().toString(36)}-${Math.random()...}`
RandomSuffixes == {"r0", "r1"}
generateId(t, r) == [kind |-> "gen", t |-> t, off |-> 0, s |-> r, n |-> ""]

\* an id the caller wrote out
LitId(name) == [kind |-> "lit", t |-> 0, off |-> 0, s |-> name, n |-> ""]
NoId == LitId("")

\* --------------------------------------------------------------- importer
SessionIds == <<"sess-a", "sess-b">>

\* JSON values of a log line: a string (an ISO text or not), a number, an object
StrV(ts) == [type |-> "string", valid |-> TRUE, ts |-> ts, num |-> 0, obj |-> <<>>]
BadStrV == [type |-> "string", valid |-> FALSE, ts |-> ToISOString(0), num |-> 0, obj |-> <<>>]
NumV(n) == [type |-> "number", valid |-> FALSE, ts |-> ToISOString(0), num |-> n, obj |-> <<>>]
ObjV(o) == [type |-> "object", valid |-> FALSE, ts |-> ToISOString(0), num |-> 0, obj |-> o]

\* a raw line: its form, whether it contains 'SKILL.md', what SKILL_MD_RE
\* captures (skills/<name>/SKILL.md), and the object it parses to
JsonLine(skill, obj) == [form |-> "json", mentions |-> TRUE, skill |-> Some(skill), obj |-> obj]

\* isValidIso(s)
isValidIso(v) == v.valid

TimestampKeys == <<"timestamp", "time", "created_at", "start_time", "ts">>
SubObjectKeys == <<"message", "event">>

RECURSIVE pickTimestamp(_)
pickTimestamp(obj) ==
  LET hit(k) == /\ k \in DOMAIN obj
                /\ \/ obj[k].type = "string" /\ isValidIso(obj[k])
                   \/ obj[k].type = "number"
      hits == {i \in 1..Len(TimestampKeys) : hit(TimestampKeys[i])}
      sub(k) == IF k \in DOMAIN obj /\ obj[k].type = "object" THEN pickTimestamp(obj[k].obj)
                ELSE Undef
      subs == {i \in 1..Len(SubObjectKeys) : sub(SubObjectKeys[i]) # Undef}
      first(S) == CHOOSE i \in S : \A j \in S : i <= j
  IN IF hits # {}
     THEN LET c == obj[TimestampKeys[first(hits)]]
          IN IF c.type = "string" THEN Some(c.ts) ELSE Some(ToISOString(c.num))
     ELSE IF subs # {} THEN sub(SubObjectKeys[first(subs)])
     ELSE Undef

\* extractSkillCallFromLine(line, sessionId): Undef stands for null
extractSkillCallFromLine(line, sessionId, t) ==
  IF line.form \in {"blank", "comment"} THEN Undef
  ELSE IF ~line.mentions THEN Undef
  ELSE IF line.form # "json" THEN Undef
  ELSE IF line.skill = Undef THEN Undef
  ELSE LET picked == pickTimestamp(line.obj)
       IN Some([skillName |-> line.skill[1],
                timestamp |-> IF picked # Undef THEN picked[1] ELSE ToISOString(t),
                sessionId |-> sessionId])

RECURSIVE scanFile(_, _, _, _, _)
scanFile(lines, i, sessionId, since, t) ==
  IF i > Len(lines) THEN <<>>
  ELSE LET call == extractSkillCallFromLine(lines[i], sessionId, t)
           rest == scanFile(lines, i + 1, sessionId, since, t)
       IN IF call = Undef THEN rest
          ELSE IF since # Undef /\ DateOf(call[1].timestamp) < since[1] THEN rest
          ELSE <<call[1]>> \o rest

RECURSIVE scanFrom(_, _, _, _)
scanFrom(dir, f, since, t) ==
  IF f > Len(SessionIds) THEN <<>>
  ELSE scanFile(dir[SessionIds[f]], 1, SessionIds[f], since, t) \o scanFrom(dir, f + 1, since, t)

\* scanSessionLogs(sessionsDir, since)
scanSessionLogs(dir, since, t) == scanFrom(dir, 1, since, t)

\* stableId(call): 'import-' and a hash of `${sessionId}:${timestamp}:${skillName}`;
\* the hash is taken to be free of collisions
stableId(call) == [kind |-> "import", t |-> call.timestamp.local, off |-> call.timestamp.off,
                   s |-> call.sessionId, n |-> call.skillName]

\* a range read that stops after the first partition
readRangeFrom_FirstOnly(files, d, last) ==
  IF d > last THEN [ok |-> TRUE, recs |-> <<>>] ELSE readLines(files[d])

RECURSIVE readRangeFrom(_, _, _)
readRangeFrom(files, d, last) ==
  IF d > last THEN [ok |-> TRUE, recs |-> <<>>]
  ELSE LET head == readLines(files[d])
           tail == readRangeFrom(files, d + 1, last)
       IN [ok |-> head.ok /\ tail.ok, recs |-> head.recs \o tail.recs]

\* store.readTracesDateRange(since, until): the partitions of the days from
\* since's to until's, in ascending order; [ok, recs] as readLines
readTracesDateRange(files, since, until) ==
  readRangeFrom(files, dateKey(since), dateKey(until))

RECURSIVE earliestTimestamp(_, _, _)
earliestTimestamp(calls, i, min) ==
  IF i > Len(calls) THEN min
  ELSE earliestTimestamp(calls, i + 1,
                         IF IsoTextLess(calls[i].timestamp, min) THEN calls[i].timestamp ELSE min)

RECURSIVE importCalls(_, _, _, _, _)
importCalls(calls, i, files, existingIds, written) ==
  IF i > Len(calls) THEN [files |-> files, written |-> written]
  ELSE LET id == stableId(calls[i])
           trace == [id |-> Some(id), skillName |-> Some(calls[i].skillName),
                     sessionLabel |-> Some(calls[i].sessionId),
                     startTime |-> Some(calls[i].timestamp), status |-> Some("success")]
       IN IF id \in existingIds THEN importCalls(calls, i + 1, files, existingIds, written)
          ELSE importCalls(calls, i + 1, appendTrace(files, trace, DateOf(calls[i].timestamp)),
                           existingIds \cup {id}, written + 1)

\* importSessionLogs(sessionsDir, store, since): [files, written, ok];
\* ok = FALSE when reading the store throws
importSessionLogs(dir, files, since, t) ==
  LET calls == scanSessionLogs(dir, since, t)
      sinceDate == IF since # Undef THEN since[1]
                   ELSE DateOf(earliestTimestamp(calls, 1, calls[1].timestamp))
      existing == IF Len(calls) > 0 THEN readTracesDateRange(files, sinceDate, t)
                  ELSE [ok |-> TRUE, recs |-> <<>>]
      existingIds == {Get(existing.recs[i], "id")[1] : i \in 1..Len(existing.recs)}
      done == importCalls(calls, 1, files, existingIds, 0)
  IN IF existing.ok THEN [files |-> done.files, written |-> done.written, ok |-> TRUE]
     ELSE [files |-> files, written |-> 0, ok |-> FALSE]

\* ---- ClawTrace.getTraceTree
\* the children of parentId, each with the children of its own id. The code
\* recurses with no guard: a chain of more nested calls than there are records
\* (plus the first) has met one record twice and never ends, which the
\* runtime cuts off with RangeError (ok = FALSE).
RECURSIVE buildChildren(_, _, _)

\* children are listed but their own children are not looked up
buildChildren_Flat(allTraces, parentId, depth) ==
  LET children == SelectSeq(allTraces, LAMBDA t : Get(t, "parentId") = Some(parentId))
  IN [ok |-> TRUE,
      nodes |-> [i \in 1..Len(children) |->
                   [agentName |-> Get(children[i], "skillName"),
                    startTime |-> Get(children[i], "startTime"),
                    endTime |-> Get(children[i], "endTime"),
                    durationMs |-> Get(children[i], "durationMs"),
                    status |-> Get(children[i], "status"),
                    children |-> <<>>]]]

buildChildren(allTraces, parentId, depth) ==
  IF depth > Len(allTraces) + 1 THEN [ok |-> FALSE, nodes |-> <<>>]
  ELSE LET children == SelectSeq(allTraces, LAMBDA t : Get(t, "parentId") = Some(parentId))
           sub == [i \in 1..Len(children) |->
                     buildChildren(allTraces, Get(children[i], "id")[1], depth + 1)]
       IN [ok |-> \A i \in 1..Len(children) : sub[i].ok,
           nodes |-> [i \in 1..Len(children) |->
                        [agentName |-> Get(children[i], "skillName"),
                         startTime |-> Get(children[i], "startTime"),
                         endTime |-> Get(children[i], "endTime"),
                         durationMs |-> Get(children[i], "durationMs"),
                         status |-> Get(children[i], "status"),
                         children |-> sub[i].nodes]]]

\* getTraceTree(traceId, date): ret is "tree", "throw" (the partition does not
\* parse) or "diverges"
getTraceTree(files, traceId, t) ==
  LET read == readTraces(files, t)
      allTraces == read.recs
      \* allTraces.find(t => t.id === traceId): the first position, 0 for undefined
      root == findIndex(allTraces, traceId)
      explicit == IF root = 0 THEN Undef ELSE Get(allTraces[root], "subAgents")
      built == buildChildren(allTraces, traceId, 1)
  IN IF ~read.ok THEN [ret |-> "throw", nodes |-> <<>>]
     ELSE IF explicit # Undef /\ Len(explicit[1]) > 0 THEN [ret |-> "tree", nodes |-> explicit[1]]
     ELSE IF built.ok THEN [ret |-> "tree", nodes |-> built.nodes]
     ELSE [ret |-> "diverges", nodes |-> <<>>]

\* --------------------------------------------------------------- recorder
\* what a unit of work settles with: a value, a thrown Error, a thrown string
Outcomes == {[kind |-> "value", text |-> "v1"],
             [kind |-> "Error", text |-> "boom"], [kind |-> "string", text |-> "oops"]}
SyntaxError == [kind |-> "SyntaxError", text |-> "Unexpected token"]
\* what fs.writeFileSync throws when the write fails
IoError == [kind |-> "Error", text |-> "EIO: i/o error, write"]

\* err instanceof Error ? err.message : String(err)
ErrorText(err) ==
  IF err.kind \in {"Error", "SyntaxError"} THEN err.text
  ELSE IF err.kind = "string" THEN err.text
  ELSE "[object Object]"

\* a completion that leaves the end timestamp out
successUpdate_NoEndTime(endTime, durationMs) ==
  [durationMs |-> Some(durationMs), status |-> Some("success")]

\* the fields wrap writes when the work resolved
successUpdate(endTime, durationMs) ==
  [endTime |-> Some(endTime), durationMs |-> Some(durationMs), status |-> Some("success")]

\* the fields wrap writes when the work rejected with err
failedUpdate(endTime, durationMs, err) ==
  [endTime |-> Some(endTime), durationMs |-> Some(durationMs), status |-> Some("failed"),
   error |-> Some(ErrorText(err))]

\* a wrap call: pc, the generated id, startMs; day and pos record where the
\* running trace was appended (history), out the work's outcome, res wrap's own
IdleWrap == [pc |-> "idle", id |-> NoId, startMs |-> 0, day |-> 0, pos |-> 0,
             out |-> [kind |-> "none", text |-> ""],
             res |-> [settle |-> "none", val |-> [kind |-> "none", text |-> ""]]]

NoOp == [op |-> "init", w |-> 0, id |-> NoId, day |-> 0, arg |-> <<>>, ret |-> "void", n |-> 0]

\* the logical events of a log directory: one per distinct source log, timestamp
\* and skill name among the lines that name a skill
EventsOf(dir) ==
  {[s |-> SessionIds[f], n |-> dir[SessionIds[f]][i].skill[1],
    ts |-> pickTimestamp(dir[SessionIds[f]][i].obj)] :
     <<f, i>> \in {<<f, i>> \in (1..Len(SessionIds)) \X (1..MaxLogLines + 1) :
                     /\ i <= Len(dir[SessionIds[f]])
                     /\ extractSkillCallFromLine(dir[SessionIds[f]][i], SessionIds[f], 0) # Undef}}

NoImport == [ran |-> FALSE, since |-> Undef, events |-> {},
             prevRan |-> FALSE, prevSince |-> Undef, prevEvents |-> {}]

\* memory changes may be older than the first day of the clock
MaxAge == 5
MemDays == ((0 - MaxAge) \div TicksPerDay)..MaxDay

\* the wrapCron calls
MaxCrons == 1

\* no memory changes, no wrapCron call, no configuration file
InitRest ==
  /\ memFiles = [d \in MemDays |-> NoFile]
  /\ crons = [c \in 1..MaxCrons |-> IdleWrap]
  /\ config = NoFile
  /\ pending = [pc |-> "idle", day |-> 0, recs |-> <<>>]
  /\ doc = NoFile

Init ==
  /\ now = 0
  /\ traceFiles = [d \in Days |-> NoFile]
  /\ wraps = [w \in 1..MaxWraps |-> IdleWrap]
  /\ logs = [f \in {SessionIds[i] : i \in 1..Len(SessionIds)} |-> <<>>]
  /\ imp = NoImport
  /\ lastOp = NoOp
  /\ InitRest

\* the clock advances
Tick ==
  /\ now < MaxNow
  /\ now' = now + 1
  /\ lastOp' = [NoOp EXCEPT !.op = "tick"]
  /\ UNCHANGED <<traceFiles, wraps, logs, imp, memFiles, crons, config, pending, doc>>

\* ---- direct calls of the store (TraceStore is public)
SampleTraces ==
  { [id |-> Some(LitId("t1")), skillName |-> Some("skill-a"), startTime |-> Some(ToISOString(0)),
     status |-> Some("running")],
    [id |-> Some(LitId("t2")), skillName |-> Some("skill-b"), sessionLabel |-> Undef,
     startTime |-> Some(ToISOString(0)), status |-> Some("success"), durationMs |-> Some(1)] }

SampleUpdates ==
  { [status |-> Some("success"), durationMs |-> Some(2)],
    [status |-> Some("running"), durationMs |-> Undef],
    [id |-> Some(LitId("t2")), error |-> Some("late")] }

\* the date argument: left out (now) or the first instant of the last day
DateArgs == {now, MaxDay * TicksPerDay}

UpdateIds == {LitId("t1"), LitId("nonexistent")}

\* store.appendTrace(trace, date)
AppendTrace(trace, t) ==
  /\ traceFiles' = appendTrace(traceFiles, trace, t)
  /\ lastOp' = [NoOp EXCEPT !.op = "appendTrace", !.day = dateKey(t), !.arg = trace]
  /\ UNCHANGED <<now, wraps, logs, imp, memFiles, crons, config, pending, doc>>

\* store.updateTrace(id, updates, date)
UpdateTrace(id, updates, t) ==
  LET u == updateTrace(traceFiles, id, updates, t)
  IN /\ traceFiles' = u.files
     /\ lastOp' = [NoOp EXCEPT !.op = "updateTrace", !.id = id, !.day = dateKey(t), !.arg = updates,
                               !.ret = u.ret]
     /\ UNCHANGED <<now, wraps, logs, imp, memFiles, crons, config, pending, doc>>

\* recorder.wrap up to the await: generate the id, append the running trace
\* a wrap that starts the work without having appended its trace
WrapStart_NoAppend(w, r) ==
  LET id == generateId(now, r)
  IN /\ wraps[w].pc = "idle"
     /\ traceFiles' = traceFiles
     /\ wraps' = [wraps EXCEPT ![w] = [IdleWrap EXCEPT
                     !.pc = "awaiting", !.id = id, !.startMs = now, !.day = dateKey(now),
                     !.pos = Len(readLines(traceFiles'[dateKey(now)]).recs) + 1]]
     /\ lastOp' = [NoOp EXCEPT !.op = "wrapStart", !.w = w, !.id = id, !.day = dateKey(now)]
     /\ UNCHANGED <<now, logs, imp, memFiles, crons, config, pending, doc>>

WrapStart(w, r) ==
  LET id == generateId(now, r)
      trace == [id |-> Some(id), skillName |-> Some("wrapped"), sessionLabel |-> IF w = 1 THEN Undef ELSE Some("morning"),
                startTime |-> Some(ToISOString(now)), status |-> Some("running"),
                toolCalls |-> Undef, subAgents |-> Undef, cost |-> Undef]
  IN /\ wraps[w].pc = "idle"
     /\ traceFiles' = appendTrace(traceFiles, trace, now)
     /\ wraps' = [wraps EXCEPT ![w] = [IdleWrap EXCEPT
                     !.pc = "awaiting", !.id = id, !.startMs = now, !.day = dateKey(now),
                     !.pos = Len(readLines(traceFiles'[dateKey(now)]).recs)]]
     /\ lastOp' = [NoOp EXCEPT !.op = "wrapStart", !.w = w, !.id = id, !.day = dateKey(now), !.arg = trace]
     /\ UNCHANGED <<now, logs, imp, memFiles, crons, config, pending, doc>>

\* recorder.wrap from the await on: the work settles with out, the trace is
\* updated. io tells which writeFileSync of this step throws: none, the one of
\* the first updateTrace the step makes ("first"), or every one ("all")
WrapSettle(w, out, io) ==
  LET id == wraps[w].id
      endTime == ToISOString(now)
      durationMs == now - wraps[w].startMs
      \* an updateTrace whose write throws leaves the file as it was
      written(u, fails) == IF u.ret = "true" /\ fails
                           THEN [files |-> traceFiles, ret |-> "throw", err |-> IoError]
                           ELSE [files |-> u.files, ret |-> u.ret, err |-> SyntaxError]
      \* the try block: only a resolved work reaches its updateTrace
      tried == IF out.kind = "value"
               THEN written(updateTrace(traceFiles, id, successUpdate(endTime, durationMs), now),
                            io # "none")
               ELSE [files |-> traceFiles, ret |-> "throw", err |-> out]
      caught == tried.err
      \* the catch block
      handled == written(updateTrace(tried.files, id, failedUpdate(endTime, durationMs, caught), now),
                         io = "all" \/ (io = "first" /\ out.kind # "value"))
      files == IF tried.ret # "throw" THEN tried.files ELSE handled.files
      res == IF tried.ret # "throw" THEN [settle |-> "resolved", val |-> out]
             ELSE IF handled.ret = "throw" THEN [settle |-> "rejected", val |-> handled.err]
             ELSE [settle |-> "rejected", val |-> caught]
  IN /\ wraps[w].pc = "awaiting"
     /\ traceFiles' = files
     /\ wraps' = [wraps EXCEPT ![w].pc = "settled", ![w].out = out, ![w].res = res]
     /\ lastOp' = [NoOp EXCEPT !.op = "wrapSettle", !.w = w, !.id = id, !.day = dateKey(now),
                               !.ret = IF tried.ret # "throw" THEN tried.ret ELSE handled.ret]
     /\ UNCHANGED <<now, logs, imp, memFiles, crons, config, pending, doc>>

\* recorder.recordTrace(params)
RecordParams ==
  { [skillName |-> Some("manual"), status |-> Some("success"), startTime |-> Some(ToISOString(0)),
     durationMs |-> Some(3)],
    [skillName |-> Some("manual"), status |-> Some("success"), startTime |-> Some(ToISOString(now))],
    [skillName |-> Some("manual"), status |-> Some("running"), startTime |-> Some(ToISOString(now)),
     durationMs |-> Some(3), error |-> Undef] }

RecordTrace(r, params) ==
  LET id == generateId(now, r)
      trace == Spread([id |-> Some(id)], params)
  IN /\ traceFiles' = appendTrace(traceFiles, trace, now)
     /\ lastOp' = [NoOp EXCEPT !.op = "recordTrace", !.id = id, !.day = dateKey(now), !.arg = trace]
     /\ UNCHANGED <<now, wraps, logs, imp, memFiles, crons, config, pending, doc>>

\* ---- the session log directory and the import command
\* lines that name a skill: a timestamp string, a numeric ts, no timestamp at
\* all, a timestamp inside the message object
SkillLines ==
  { JsonLine("skill-a", [timestamp |-> StrV(ToISOString(0))]),
    JsonLine("skill-b", [ts |-> NumV(TicksPerDay)]),
    JsonLine("skill-a", <<>>),
    JsonLine("skill-a", [timestamp |-> BadStrV, message |-> ObjV([time |-> StrV(ToISOString(0))])]) }

\* lines the scan skips: a comment, a text that is not JSON, a JSON line whose
\* path does not match SKILL_MD_RE, a JSON line without 'SKILL.md', a blank line
SkippedLines ==
  { [form |-> "comment", mentions |-> TRUE, skill |-> Some("skill-a"), obj |-> <<>>],
    [form |-> "text", mentions |-> TRUE, skill |-> Some("skill-a"), obj |-> <<>>],
    [form |-> "json", mentions |-> TRUE, skill |-> Undef, obj |-> <<>>],
    [form |-> "json", mentions |-> FALSE, skill |-> Undef,
     obj |-> [timestamp |-> StrV(ToISOString(0))]],
    [form |-> "blank", mentions |-> FALSE, skill |-> Undef, obj |-> <<>>] }

\* what is written to each session log
LinesFor(f) == IF f = 1 THEN SkillLines \cup SkippedLines
               ELSE {JsonLine("skill-a", [timestamp |-> StrV(ToISOString(0))])}

\* the agent platform writes one more line to a session log
LogAppend(f, line) ==
  /\ Len(logs[SessionIds[1]]) + Len(logs[SessionIds[2]]) < MaxLogLines
  /\ logs' = [logs EXCEPT ![SessionIds[f]] = Append(@, line)]
  /\ lastOp' = [NoOp EXCEPT !.op = "logAppend"]
  /\ UNCHANGED <<now, traceFiles, wraps, imp, memFiles, crons, config, pending, doc>>

\* importSessionLogs(sessionsDir, store, since)
Import(since) ==
  LET r == importSessionLogs(logs, traceFiles, since, now)
  IN /\ TotalLines(r.files, DOMAIN r.files) <= MaxRecords
     /\ traceFiles' = r.files
     /\ imp' = [ran |-> TRUE, since |-> since, events |-> EventsOf(logs),
                prevRan |-> imp.ran, prevSince |-> imp.since, prevEvents |-> imp.events]
     /\ lastOp' = [NoOp EXCEPT !.op = "import", !.arg = since, !.n = r.written,
                               !.ret = IF r.ok THEN "number" ELSE "throw"]
     /\ UNCHANGED <<now, wraps, logs, memFiles, crons, config, pending, doc>>

StoreCalls ==
  \/ \E trace \in SampleTraces, t \in DateArgs : HasRoom(MaxRecords) /\ AppendTrace(trace, t)
  \/ \E id \in UpdateIds, u \in SampleUpdates, t \in DateArgs : UpdateTrace(id, u, t)

WrapCalls(W) ==
  \/ \E w \in W, r \in RandomSuffixes : HasRoom(MaxRecords) /\ WrapStart(w, r)
  \/ \E w \in W, out \in Outcomes, io \in {"none", "first", "all"} : WrapSettle(w, out, io)

ImportCalls(F) ==
  \/ \E f \in F : \E line \in LinesFor(f) : LogAppend(f, line)
  \/ \E since \in {Undef, Some(TicksPerDay)} : Import(since)

\* the store on its own, called with explicit dates
SpecStore == Init /\ [][StoreCalls]_vars

\* one wrap call and the clock
NextWrap == Tick \/ WrapCalls({1})
SpecWrap == Init /\ [][NextWrap]_vars

\* the importer over a growing log directory
NextImport == Tick \/ ImportCalls(1..Len(SessionIds))
SpecImport == Init /\ [][NextImport]_vars

\* the recorder: wrap calls in flight at once in one process, and recordTrace
Next ==
  \/ Tick
  \/ WrapCalls(1..MaxWraps)
  \/ \E r \in RandomSuffixes, p \in RecordParams : HasRoom(MaxRecords) /\ RecordTrace(r, p)
Spec == Init /\ [][Next]_vars

\* ---- ClawTrace queries over one partition
\* t.sessionLabel ?? 'default'
sessionKey(t) == IF Get(t, "sessionLabel") = Undef THEN "default" ELSE Get(t, "sessionLabel")[1]

\* the keys of the Map in insertion order
RECURSIVE mapKeysFrom(_, _, _)
mapKeysFrom(traces, i, keys) ==
  IF i > Len(traces) THEN keys
  ELSE mapKeysFrom(traces, i + 1,
                   IF \E j \in 1..Len(keys) : keys[j] = sessionKey(traces[i]) THEN keys
                   ELSE Append(keys, sessionKey(traces[i])))

\* getSessions(date)
getSessions(files, t) ==
  LET read == readTraces(files, t)
      keys == mapKeysFrom(read.recs, 1, <<>>)
      sorted(label) ==
        sort(SelectSeq(read.recs, LAMBDA r : sessionKey(r) = label),
             {p \in Pairs(read.recs) :
                localeCompareLess(Get(p[1], "startTime")[1], Get(p[2], "startTime")[1])})
  IN [ok |-> read.ok,
      sessions |-> [i \in 1..Len(keys) |->
                      [id |-> keys[i],
                       label |-> IF keys[i] = "default" THEN Undef ELSE Some(keys[i]),
                       startTime |-> Get(sorted(keys[i])[1], "startTime"),
                       endTime |-> Get(sorted(keys[i])[Len(sorted(keys[i]))], "endTime"),
                       skills |-> sorted(keys[i])]]]

\* getSession(label, date): the first session whose label ?? 'default' is label
getSession(files, label, t) ==
  LET all == getSessions(files, t)
      hits == {i \in 1..Len(all.sessions) : all.sessions[i].id = label}
  IN [ok |-> all.ok,
      session |-> IF hits = {} THEN Undef
                  ELSE Some(all.sessions[CHOOSE i \in hits : \A j \in hits : i <= j])]

\* getSkillTraces(skillName, date)
getSkillTraces(files, skillName, t) ==
  LET read == readTraces(files, t)
  IN [ok |-> read.ok,
      traces |-> sort(SelectSeq(read.recs, LAMBDA r : Get(r, "skillName") = Some(skillName)),
                      {p \in Pairs(read.recs) :
                         localeCompareLess(Get(p[2], "startTime")[1], Get(p[1], "startTime")[1])})]

\* getLastSkillTrace(skillName, date)
getLastSkillTrace(files, skillName, t) ==
  LET all == getSkillTraces(files, skillName, t)
  IN [ok |-> all.ok,
      trace |-> IF Len(all.traces) = 0 THEN Undef ELSE Some(all.traces[1])]

\* ---- ClawTrace statistics over a date range
\* Math.round(num / den) for num >= 0, den > 0: halves go up
MathRound(num, den) == (2 * num + den) \div (2 * den)

\* the keys of the Map of getRankings (skillName, possibly undefined) in insertion order
RECURSIVE rankKeysFrom(_, _, _)
rankKeysFrom(traces, i, keys) ==
  IF i > Len(traces) THEN keys
  ELSE rankKeysFrom(traces, i + 1,
                    IF \E j \in 1..Len(keys) : keys[j] = Get(traces[i], "skillName") THEN keys
                    ELSE Append(keys, Get(traces[i], "skillName")))

\* durations.reduce((a, b) => a + b, 0)
RECURSIVE reduceSum(_, _)
reduceSum(list, field) ==
  IF Len(list) = 0 THEN 0
  ELSE (IF Get(list[1], field) = Undef THEN 0 ELSE Get(list[1], field)[1])
       + reduceSum(Tail(list), field)

\* one entry of getRankings for the traces of one skill
rankEntry(key, group) ==
  LET success == Len(SelectSeq(group, LAMBDA r : Get(r, "status") = Some("success")))
      durations == SelectSeq(group, LAMBDA r : Get(r, "durationMs") # Undef)
  IN [skillName |-> key,
      callCount |-> Len(group),
      successRate |-> IF Len(group) > 0 THEN MathRound(success * 100, Len(group)) ELSE 0,
      avgDurationMs |-> IF Len(durations) > 0
                        THEN Some(MathRound(reduceSum(durations, "durationMs"), Len(durations)))
                        ELSE Undef]

\* the success rate cut off instead of rounded
getRankings_Truncate(files, since, until) ==
  LET read == readTracesDateRange(files, since, until)
      keys == rankKeysFrom(read.recs, 1, <<>>)
      group(key) == SelectSeq(read.recs, LAMBDA r : Get(r, "skillName") = key)
      results == [i \in 1..Len(keys) |->
                    [rankEntry(keys[i], group(keys[i])) EXCEPT
                       !.successRate =
                         (Len(SelectSeq(group(keys[i]), LAMBDA r : Get(r, "status") = Some("success")))
                          * 100) \div Len(group(keys[i]))]]
  IN [ok |-> read.ok,
      entries |-> sort(results, {p \in Pairs(results) : p[1].callCount > p[2].callCount})]

\* getRankings(since, until)
getRankings(files, since, until) ==
  LET read == readTracesDateRange(files, since, until)
      keys == rankKeysFrom(read.recs, 1, <<>>)
      group(key) == SelectSeq(read.recs, LAMBDA r : Get(r, "skillName") = key)
      results == [i \in 1..Len(keys) |-> rankEntry(keys[i], group(keys[i]))]
  IN [ok |-> read.ok,
      entries |-> sort(results, {p \in Pairs(results) : p[1].callCount > p[2].callCount})]

\* every trace that did not succeed counted as failed
summaryOf_FailedIsNotSuccess(traces) ==
  [traces |-> traces,
   totalSkills |-> Len(traces),
   successCount |-> Len(SelectSeq(traces, LAMBDA r : Get(r, "status") = Some("success"))),
   failedCount |-> Len(SelectSeq(traces, LAMBDA r : Get(r, "status") # Some("success"))),
   runningCount |-> Len(SelectSeq(traces, LAMBDA r : Get(r, "status") = Some("running"))),
   totalCost |-> reduceSum(traces, "cost")]

\* the counts and the cost total of getDailySummary and getStatsRange
summaryOf(traces) ==
  [traces |-> traces,
   totalSkills |-> Len(traces),
   successCount |-> Len(SelectSeq(traces, LAMBDA r : Get(r, "status") = Some("success"))),
   failedCount |-> Len(SelectSeq(traces, LAMBDA r : Get(r, "status") = Some("failed"))),
   runningCount |-> Len(SelectSeq(traces, LAMBDA r : Get(r, "status") = Some("running"))),
   totalCost |-> reduceSum(traces, "cost")]

\* getDailySummary(date)
getDailySummary(files, t) ==
  LET read == readTraces(files, t)
  IN [ok |-> read.ok, summary |-> summaryOf(read.recs)]

\* getStatsRange(since, until)
getStatsRange(files, since, until) ==
  LET read == readTracesDateRange(files, since, until)
  IN [ok |-> read.ok, summary |-> summaryOf(read.recs)]

\* ---- traces that reference each other by parentId, and the tree query
MaxTreeRecords == 3

ExplicitChild ==
  [agentName |-> "explicit-child", startTime |-> ToISOString(0), status |-> "success",
   durationMs |-> 500]

SampleTrace(id, name, status) ==
  [id |-> Some(LitId(id)), skillName |-> Some(name), startTime |-> Some(ToISOString(0)),
   status |-> Some(status)]

TreeTraces ==
  { Spread(SampleTrace("a", "root-task", "success"), [subAgents |-> Some(<<>>)]),
    Spread(SampleTrace("b", "middle-task", "success"),
           [durationMs |-> Some(5), parentId |-> Some(LitId("a"))]),
    Spread(SampleTrace("c", "leaf-task", "failed"),
           [endTime |-> Some(ToISOString(1)), parentId |-> Some(LitId("b")),
            subAgents |-> Some(<<ExplicitChild>>)]),
    Spread(SampleTrace("a", "self-parent", "running"), [parentId |-> Some(LitId("a"))]),
    Spread(SampleTrace("a", "child-of-b", "success"), [parentId |-> Some(LitId("b"))]),
    Spread(SampleTrace("a", "explicit-parent", "success"), [subAgents |-> Some(<<ExplicitChild>>)]) }

\* clawtrace.getTraceTree(traceId, date)
GetTraceTree(traceId, t) ==
  LET r == getTraceTree(traceFiles, traceId, t)
  IN /\ lastOp' = [NoOp EXCEPT !.op = "getTraceTree", !.id = traceId, !.day = dateKey(t),
                               !.arg = r.nodes, !.ret = r.ret]
     /\ UNCHANGED <<now, traceFiles, wraps, logs, imp, memFiles, crons, config, pending, doc>>

NextTree ==
  \/ \E trace \in TreeTraces, t \in DateArgs : HasRoom(MaxTreeRecords) /\ AppendTrace(trace, t)
  \/ \E traceId \in {LitId("a"), LitId("b"), LitId("nonexistent")}, t \in DateArgs : GetTraceTree(traceId, t)
SpecTree == Init /\ [][NextTree]_vars

\* the records a store holds when a command is looked at on its own
MaxQueryRecords == 3

\* ---- recorder.wrapCron
\* the completion record reusing the id of the start record
cronDoneId_Same(id) == id

\* record.id + '-done'
cronDoneId(id) == [id EXCEPT !.n = @ \o "-done"]

\* the start record of a wrapCron call
cronRecord(c, id, startMs) ==
  [id |-> Some(id), jobName |-> Some("nightly"), cronExpr |-> (IF c = 1 THEN Undef ELSE Some("0 8 * * *")),
   startTime |-> Some(ToISOString(startMs)), status |-> Some("running")]

\* wrapCron up to the await: generate the id, append the start record
WrapCronStart(c, r) ==
  LET id == generateId(now, r)
  IN /\ crons[c].pc = "idle"
     /\ traceFiles' = appendCronRecord(traceFiles, cronRecord(c, id, now), now)
     /\ crons' = [crons EXCEPT ![c] = [IdleWrap EXCEPT
                     !.pc = "awaiting", !.id = id, !.startMs = now, !.day = dateKey(now),
                     !.pos = Len(readLines(traceFiles'[dateKey(now)]).recs)]]
     /\ lastOp' = [NoOp EXCEPT !.op = "wrapCronStart", !.w = c, !.id = id, !.day = dateKey(now)]
     /\ UNCHANGED <<now, wraps, logs, imp, memFiles, config, pending, doc>>

\* wrapCron from the await on: the job settles with out, the completion record is appended
WrapCronSettle(c, out) ==
  LET record == cronRecord(c, crons[c].id, crons[c].startMs)
      endTime == ToISOString(now)
      durationMs == now - crons[c].startMs
      done == IF out.kind = "value"
              THEN Spread(record, [id |-> Some(cronDoneId(crons[c].id)), endTime |-> Some(endTime),
                                   durationMs |-> Some(durationMs), status |-> Some("success")])
              ELSE Spread(record, [id |-> Some(cronDoneId(crons[c].id)), endTime |-> Some(endTime),
                                   durationMs |-> Some(durationMs), status |-> Some("failed"),
                                   error |-> Some(ErrorText(out))])
  IN /\ crons[c].pc = "awaiting"
     /\ traceFiles' = appendCronRecord(traceFiles, done, now)
     /\ crons' = [crons EXCEPT ![c].pc = "settled", ![c].out = out,
                                ![c].res = [settle |-> IF out.kind = "value" THEN "resolved"
                                                       ELSE "rejected",
                                            val |-> out]]
     /\ lastOp' = [NoOp EXCEPT !.op = "wrapCronSettle", !.w = c, !.id = crons[c].id,
                               !.day = dateKey(now)]
     /\ UNCHANGED <<now, wraps, logs, imp, memFiles, config, pending, doc>>

\* cron jobs next to direct store calls on the same files, from the first day
\* up to the first instant of the second
NextCron ==
  \/ now < TicksPerDay /\ Tick
  \/ \E c \in 1..MaxCrons : HasRoom(MaxQueryRecords) /\ WrapCronStart(c, "r0")
  \/ \E c \in 1..MaxCrons, out \in Outcomes : WrapCronSettle(c, out)
  \/ \E trace \in SampleTraces :
       Get(trace, "id") = Some(LitId("t1")) /\ HasRoom(MaxQueryRecords - 1) /\ AppendTrace(trace, now)
  \/ UpdateTrace(LitId("t1"), [status |-> Some("success"), durationMs |-> Some(2)], now)
SpecCron == Init /\ [][NextCron]_vars

\* ---- memory changes and the window read
MaxMemChanges == 2

\* number of changes stored over all memory files
MemLines ==
  Cardinality({<<e, i>> \in MemDays \X (1..(MaxMemChanges + 1)) :
                 i <= Len(readLines(memFiles[e]).recs)})

\* store.appendMemoryChange(change, date): the date is left out (now) or is
\* the date of the change
AppendMemoryChange(age, own) ==
  LET t == IF own THEN now - age ELSE now
      change == [id |-> Some(LitId("chg")), time |-> Some(ToISOString(now - age)),
                 agent |-> Some("heartbeat"), file |-> Some("memory/heartbeat.json"),
                 linesAdded |-> Some(1), linesRemoved |-> Some(0), description |-> Undef]
  IN /\ MemLines < MaxMemChanges
     /\ memFiles' = appendMemoryChange(memFiles, change, t)
     /\ lastOp' = [NoOp EXCEPT !.op = "appendMemoryChange", !.day = dateKey(t), !.n = age]
     /\ UNCHANGED <<now, traceFiles, wraps, logs, imp, crons, config, pending, doc>>

\* recorder.recordMemoryChange(params)
RecordMemoryChange(r) ==
  LET id == generateId(now, r)
      change == Spread([id |-> Some(id), time |-> Some(ToISOString(now))],
                       [agent |-> Some("heartbeat"), file |-> Some("memory/heartbeat.json"),
                        linesAdded |-> Some(1), linesRemoved |-> Some(0)])
  IN /\ MemLines < MaxMemChanges
     /\ memFiles' = appendMemoryChange(memFiles, change, now)
     /\ lastOp' = [NoOp EXCEPT !.op = "recordMemoryChange", !.id = id, !.day = dateKey(now)]
     /\ UNCHANGED <<now, traceFiles, wraps, logs, imp, crons, config, pending, doc>>

\* store.readMemoryChangesLastHours(hours), hours in ticks
ReadMemoryChangesLastHours(hours) ==
  LET r == readMemoryChangesLastHours(memFiles, hours, now)
  IN /\ lastOp' = [NoOp EXCEPT !.op = "readMemoryChangesLastHours", !.n = hours, !.arg = r.recs,
                               !.ret = IF r.ok THEN "list" ELSE "throw"]
     /\ UNCHANGED <<now, traceFiles, wraps, logs, imp, memFiles, crons, config, pending, doc>>

\* windows of at most 24 hours, asked during the first day
NextMem ==
  \/ now < TicksPerDay - 1 /\ Tick
  \/ \E age \in 0..MaxAge, own \in BOOLEAN : AppendMemoryChange(age, own)
  \/ RecordMemoryChange("r0")
  \/ \E hours \in 1..TicksPerDay : ReadMemoryChangesLastHours(hours)
SpecMem == Init /\ [][NextMem]_vars

\* ---- the query commands over a store filled by callers

\* an ISO text with a UTC offset, as the importer stores it from a log line
OffsetText(local, off) == [local |-> local, off |-> off]

SessionTraces ==
  { Spread(SampleTrace("m1", "skill-a", "success"),
           [sessionLabel |-> Some("morning"), startTime |-> Some(ToISOString(1))]),
    Spread(SampleTrace("m0", "skill-a", "success"),
           [sessionLabel |-> Some("morning"), startTime |-> Some(ToISOString(0))]),
    Spread(SampleTrace("u0", "skill-a", "success"),
           [sessionLabel |-> Undef, startTime |-> Some(ToISOString(0))]),
    Spread(SampleTrace("d1", "skill-a", "success"),
           [sessionLabel |-> Some("default"), startTime |-> Some(ToISOString(1))]),
    Spread(SampleTrace("mz", "skill-a", "success"),
           [sessionLabel |-> Some("morning"), startTime |-> Some(OffsetText(TicksPerDay, TicksPerDay))]) }

SessionLabels == {"morning", "default", "evening"}

\* clawtrace.getSessions(date)
GetSessions(t) ==
  LET r == getSessions(traceFiles, t)
  IN /\ lastOp' = [NoOp EXCEPT !.op = "getSessions", !.day = dateKey(t), !.arg = r.sessions,
                               !.ret = IF r.ok THEN "list" ELSE "throw"]
     /\ UNCHANGED <<now, traceFiles, wraps, logs, imp, memFiles, crons, config, pending, doc>>

\* clawtrace.getSession(label, date)
GetSession(label, t) ==
  LET r == getSession(traceFiles, label, t)
  IN /\ lastOp' = [NoOp EXCEPT !.op = "getSession", !.id = LitId(label), !.day = dateKey(t),
                               !.arg = r.session,
                               !.ret = IF ~r.ok THEN "throw"
                                       ELSE IF r.session = Undef THEN "undefined" ELSE "session"]
     /\ UNCHANGED <<now, traceFiles, wraps, logs, imp, memFiles, crons, config, pending, doc>>

NextSessions ==
  \/ \E trace \in SessionTraces, t \in DateArgs : HasRoom(MaxQueryRecords) /\ AppendTrace(trace, t)
  \/ \E t \in DateArgs : GetSessions(t)
  \/ \E label \in SessionLabels, t \in DateArgs : GetSession(label, t)
SpecSessions == Init /\ [][NextSessions]_vars

\* store.appendCronRecord(record, date)
AppendCronRecord(record, t) ==
  /\ traceFiles' = appendCronRecord(traceFiles, record, t)
  /\ lastOp' = [NoOp EXCEPT !.op = "appendCronRecord", !.day = dateKey(t), !.arg = record]
  /\ UNCHANGED <<now, wraps, logs, imp, memFiles, crons, config, pending, doc>>

\* a cron record as wrapCron writes it when the job starts
CronSample ==
  [id |-> Some(LitId("cron1")), jobName |-> Some("nightly"), cronExpr |-> Undef,
   startTime |-> Some(ToISOString(0)), status |-> Some("running")]

\* the ranges asked for: all days, the last day, the first day
RangeArgs == {<<0, MaxDay * TicksPerDay>>, <<MaxDay * TicksPerDay, MaxDay * TicksPerDay>>, <<0, 0>>}

\* ---- getRankings
MaxRankRecords == 4

RankTraces ==
  { Spread(SampleTrace("a1", "skill-a", "success"), [durationMs |-> Some(1)]),
    Spread(SampleTrace("a2", "skill-a", "failed"), [durationMs |-> Some(2)]),
    Spread(SampleTrace("a3", "skill-a", "success"), [durationMs |-> Undef]),
    Spread(SampleTrace("b1", "skill-b", "success"), [durationMs |-> Undef]) }

\* clawtrace.getRankings(since, until)
GetRankings(since, until) ==
  LET r == getRankings(traceFiles, since, until)
  IN /\ lastOp' = [NoOp EXCEPT !.op = "getRankings", !.day = dateKey(since), !.n = dateKey(until),
                               !.arg = r.entries, !.ret = IF r.ok THEN "list" ELSE "throw"]
     /\ UNCHANGED <<now, traceFiles, wraps, logs, imp, memFiles, crons, config, pending, doc>>

NextRank ==
  \/ \E trace \in RankTraces, t \in DateArgs : HasRoom(MaxRankRecords) /\ AppendTrace(trace, t)
  \/ \E t \in DateArgs : HasRoom(MaxRankRecords) /\ AppendCronRecord(CronSample, t)
  \/ \E range \in RangeArgs : GetRankings(range[1], range[2])
SpecRank == Init /\ [][NextRank]_vars

\* ---- readTracesDateRange
\* store.readTracesDateRange(since, until)
ReadTracesDateRange(since, until) ==
  LET r == readTracesDateRange(traceFiles, since, until)
  IN /\ lastOp' = [NoOp EXCEPT !.op = "readTracesDateRange", !.day = dateKey(since),
                               !.n = dateKey(until), !.arg = r.recs,
                               !.ret = IF r.ok THEN "list" ELSE "throw"]
     /\ UNCHANGED <<now, traceFiles, wraps, logs, imp, memFiles, crons, config, pending, doc>>

\* ---- getDailySummary and getStatsRange
SummaryTraces ==
  { Spread(SampleTrace("s1", "skill-a", "success"), [cost |-> Some(2)]),
    Spread(SampleTrace("s2", "skill-a", "failed"), [cost |-> Undef]),
    Spread(SampleTrace("s3", "skill-a", "running"), [cost |-> Some(1)]) }

\* clawtrace.getDailySummary(date)
GetDailySummary(t) ==
  LET r == getDailySummary(traceFiles, t)
  IN /\ lastOp' = [NoOp EXCEPT !.op = "getDailySummary", !.day = dateKey(t), !.n = dateKey(t),
                               !.arg = r.summary, !.ret = IF r.ok THEN "summary" ELSE "throw"]
     /\ UNCHANGED <<now, traceFiles, wraps, logs, imp, memFiles, crons, config, pending, doc>>

\* clawtrace.getStatsRange(since, until)
GetStatsRange(since, until) ==
  LET r == getStatsRange(traceFiles, since, until)
  IN /\ lastOp' = [NoOp EXCEPT !.op = "getStatsRange", !.day = dateKey(since), !.n = dateKey(until),
                               !.arg = r.summary, !.ret = IF r.ok THEN "summary" ELSE "throw"]
     /\ UNCHANGED <<now, traceFiles, wraps, logs, imp, memFiles, crons, config, pending, doc>>

NextSummary ==
  \/ \E trace \in SummaryTraces, t \in DateArgs : HasRoom(MaxQueryRecords) /\ AppendTrace(trace, t)
  \/ \E t \in DateArgs : HasRoom(MaxQueryRecords) /\ AppendCronRecord(CronSample, t)
  \/ \E t \in DateArgs : GetDailySummary(t)
  \/ \E range \in RangeArgs : GetStatsRange(range[1], range[2])
  \/ \E range \in RangeArgs : ReadTracesDateRange(range[1], range[2])
SpecSummary == Init /\ [][NextSummary]_vars

\* ---- updateTrace of a second process, one file system call at a time
\* updateTrace(id, updates, date) up to its write: the file is read and the
\* record replaced in memory
UpdateRead(id, updates, t) ==
  LET rd == readLines(traceFiles[dateKey(t)])
      idx == findIndex(rd.recs, id)
  IN /\ pending.pc = "idle"
     /\ rd.ok /\ idx # 0
     /\ pending' = [pc |-> "read", day |-> dateKey(t),
                    recs |-> [rd.recs EXCEPT ![idx] = Spread(rd.recs[idx], updates)]]
     /\ lastOp' = [NoOp EXCEPT !.op = "updateRead", !.id = id, !.day = dateKey(t), !.arg = updates]
     /\ UNCHANGED <<now, traceFiles, wraps, logs, imp, memFiles, crons, config, doc>>

\* a rewrite that reads the file again and replaces the record in what it finds
UpdateRewrite_ReadAgain ==
  LET now_recs == readLines(traceFiles[pending.day]).recs
      merged == [i \in 1..Len(now_recs) |->
                   IF i <= Len(pending.recs) /\ Get(now_recs[i], "id") = Get(pending.recs[i], "id")
                   THEN Spread(now_recs[i], pending.recs[i]) ELSE now_recs[i]]
  IN /\ pending.pc = "read"
     /\ traceFiles' = [traceFiles EXCEPT ![pending.day] = FileOf(JoinNL(merged, 1) \o <<NL>>)]
     /\ pending' = [pc |-> "idle", day |-> 0, recs |-> <<>>]
     /\ lastOp' = [NoOp EXCEPT !.op = "updateRewrite", !.day = pending.day, !.ret = "true",
                               !.arg = readLines(traceFiles[pending.day]).recs]
     /\ UNCHANGED <<now, wraps, logs, imp, memFiles, crons, config, doc>>

\* the write of that updateTrace: fs.writeFileSync of the records it holds;
\* lastOp keeps the records the file held just before
UpdateRewrite ==
  /\ pending.pc = "read"
  /\ traceFiles' = [traceFiles EXCEPT ![pending.day] = FileOf(JoinNL(pending.recs, 1) \o <<NL>>)]
  /\ pending' = [pc |-> "idle", day |-> 0, recs |-> <<>>]
  /\ lastOp' = [NoOp EXCEPT !.op = "updateRewrite", !.day = pending.day, !.ret = "true",
                            !.arg = readLines(traceFiles[pending.day]).recs]
  /\ UNCHANGED <<now, wraps, logs, imp, memFiles, crons, config, doc>>

\* two processes on the first day's partition: one appends and updates with
\* whole calls, the other is followed call by call
NextRace ==
  \/ \E trace \in SampleTraces : HasRoom(MaxRecords) /\ AppendTrace(trace, now)
  \/ \E id \in UpdateIds, u \in SampleUpdates : UpdateTrace(id, u, now)
  \/ \E id \in UpdateIds : UpdateRead(id, [error |-> Some("second")], now)
  \/ UpdateRewrite
SpecRace == Init /\ [][NextRace]_vars

\* ---- getSkillTraces and getLastSkillTrace
\* traces of two skills in the first day's partition; one start time is a text
\* with a UTC offset, kept as the log line had it
SkillTraces ==
  { Spread(SampleTrace("a0", "skill-a", "success"), [startTime |-> Some(ToISOString(0))]),
    Spread(SampleTrace("a1", "skill-a", "success"), [startTime |-> Some(ToISOString(1))]),
    Spread(SampleTrace("b1", "skill-b", "success"), [startTime |-> Some(ToISOString(1))]),
    Spread(SampleTrace("az", "skill-a", "success"), [startTime |-> Some(OffsetText(TicksPerDay, TicksPerDay))]) }

\* clawtrace.getSkillTraces(skillName, date)
GetSkillTraces(skillName, t) ==
  LET r == getSkillTraces(traceFiles, skillName, t)
  IN /\ lastOp' = [NoOp EXCEPT !.op = "getSkillTraces", !.id = LitId(skillName), !.day = dateKey(t),
                               !.arg = r.traces, !.ret = IF r.ok THEN "list" ELSE "throw"]
     /\ UNCHANGED <<now, traceFiles, wraps, logs, imp, memFiles, crons, config, pending, doc>>

\* clawtrace.getLastSkillTrace(skillName, date)
GetLastSkillTrace(skillName, t) ==
  LET r == getLastSkillTrace(traceFiles, skillName, t)
  IN /\ lastOp' = [NoOp EXCEPT !.op = "getLastSkillTrace", !.id = LitId(skillName), !.day = dateKey(t),
                               !.arg = r.trace,
                               !.ret = IF ~r.ok THEN "throw"
                                       ELSE IF r.trace = Undef THEN "undefined" ELSE "trace"]
     /\ UNCHANGED <<now, traceFiles, wraps, logs, imp, memFiles, crons, config, pending, doc>>

\* every trace is stored in the partition of the day of its start, as the
\* importer and the recorder store it
NextSkill ==
  \/ now < TicksPerDay /\ Tick
  \/ \E trace \in SkillTraces :
       /\ HasRoom(MaxQueryRecords)
       /\ AppendTrace(trace, DateOf(Get(trace, "startTime")[1]))
  \/ \E name \in {"skill-a", "skill-b", "skill-x"}, t \in DateArgs : GetSkillTraces(name, t)
  \/ \E name \in {"skill-a", "skill-b", "skill-x"}, t \in DateArgs : GetLastSkillTrace(name, t)
SpecSkill == Init /\ [][NextSkill]_vars

\* ---- lookups that find nothing
\* a labelled trace, a trace without label, and a trace whose parent is not in
\* the partition
MissTraces ==
  { [id |-> Some(LitId("t1")), skillName |-> Some("skill-a"), sessionLabel |-> Some("morning"),
     startTime |-> Some(ToISOString(0)), status |-> Some("running")],
    [id |-> Some(LitId("u1")), skillName |-> Some("skill-b"),
     startTime |-> Some(ToISOString(0)), status |-> Some("success")],
    [id |-> Some(LitId("k1")), skillName |-> Some("skill-a"), parentId |-> Some(LitId("ghost")),
     startTime |-> Some(ToISOString(1)), status |-> Some("success")] }

\* store.readTraces(date)
ReadTraces(t) ==
  LET r == readTraces(traceFiles, t)
  IN /\ lastOp' = [NoOp EXCEPT !.op = "readTraces", !.day = dateKey(t), !.arg = r.recs,
                               !.ret = IF r.ok THEN "list" ELSE "throw"]
     /\ UNCHANGED <<now, traceFiles, wraps, logs, imp, memFiles, crons, config, pending, doc>>

NextMiss ==
  \/ \E trace \in MissTraces, t \in DateArgs : HasRoom(MaxQueryRecords) /\ AppendTrace(trace, t)
  \/ \E t \in DateArgs : ReadTraces(t)
  \/ \E label \in SessionLabels, t \in DateArgs : GetSession(label, t)
  \/ \E name \in {"skill-a", "skill-b", "skill-x"}, t \in DateArgs : GetSkillTraces(name, t)
  \/ \E name \in {"skill-a", "skill-b", "skill-x"}, t \in DateArgs : GetLastSkillTrace(name, t)
  \/ \E traceId \in {LitId("t1"), LitId("ghost"), LitId("nonexistent")}, t \in DateArgs : GetTraceTree(traceId, t)
  \/ \E id \in {LitId("t1"), LitId("ghost"), LitId("nonexistent")}, t \in DateArgs :
       UpdateTrace(id, [status |-> Some("success"), durationMs |-> Some(2)], t)
SpecMiss == Init /\ [][NextMiss]_vars

\* ---- partition files with a line that is not JSON
\* the files a read may find: none, one record, a torn last line, a text that
\* is not JSON before a record, two JSON texts on one line, blank lines only
SampleFiles(record) ==
  { NoFile,
    FileOf(<<JsonStringify(record), NL>>),
    FileOf(<<JsonStringify(record), NL, [text |-> "{\"id\":"]>>),
    FileOf(<<[text |-> "not json"], NL, JsonStringify(record), NL>>),
    FileOf(<<JsonStringify(record), JsonStringify(record), NL>>),
    FileOf(<<NL, NL>>) }

InitBroken ==
  /\ now = 0
  /\ traceFiles \in [Days -> SampleFiles(SampleTrace("t1", "skill-a", "running"))]
  /\ \E file \in SampleFiles([id |-> Some(LitId("chg")), time |-> Some(ToISOString(0)),
                               agent |-> Some("heartbeat"), file |-> Some("memory/heartbeat.json"),
                               linesAdded |-> Some(1), linesRemoved |-> Some(0)]) :
       memFiles = [d \in MemDays |-> IF d = 0 THEN file ELSE NoFile]
  /\ wraps = [w \in 1..MaxWraps |-> IdleWrap]
  /\ logs = [f \in {SessionIds[i] : i \in 1..Len(SessionIds)} |-> <<>>]
  /\ imp = NoImport
  /\ lastOp = NoOp
  /\ crons = [c \in 1..MaxCrons |-> IdleWrap]
  /\ config = NoFile
  /\ pending = [pc |-> "idle", day |-> 0, recs |-> <<>>]
  /\ doc = NoFile

\* store.readCronRecords(date)
ReadCronRecords(t) ==
  LET r == readCronRecords(traceFiles, t)
  IN /\ lastOp' = [NoOp EXCEPT !.op = "readCronRecords", !.day = dateKey(t), !.arg = r.recs,
                               !.ret = IF r.ok THEN "list" ELSE "throw"]
     /\ UNCHANGED <<now, traceFiles, wraps, logs, imp, memFiles, crons, config, pending, doc>>

\* store.readMemoryChanges(date)
ReadMemoryChanges(t) ==
  LET r == readMemoryChanges(memFiles, t)
  IN /\ lastOp' = [NoOp EXCEPT !.op = "readMemoryChanges", !.day = dateKey(t), !.arg = r.recs,
                               !.ret = IF r.ok THEN "list" ELSE "throw"]
     /\ UNCHANGED <<now, traceFiles, wraps, logs, imp, memFiles, crons, config, pending, doc>>

NextBroken ==
  \/ \E t \in DateArgs : ReadTraces(t)
  \/ \E t \in DateArgs : ReadCronRecords(t)
  \/ \E t \in DateArgs : ReadMemoryChanges(t)
  \/ \E id \in UpdateIds, t \in DateArgs : UpdateTrace(id, [status |-> Some("success")], t)
SpecBroken == InitBroken /\ [][NextBroken]_vars

\* ---- the statistics block of a skill document
\* a document is a file whose chunks are pieces of text: the start marker, the
\* end marker, a newline, a run of other characters, the lines of a block
\* between its markers
MaxDocLen == 16
STATS_START_MARKER == [marker |-> "start"]
STATS_END_MARKER == [marker |-> "end"]

\* buildStatsBlock(traces, skillName) at instant t: the marker lines around the
\* heading, the time of the update and the table of counts
buildStatsBlock(traces, t) ==
  <<STATS_START_MARKER,
    [updated |-> t, runs |-> Len(traces),
     success |-> Cardinality({i \in 1..Len(traces) : Get(traces[i], "status") = Some("success")}),
     failed |-> Cardinality({i \in 1..Len(traces) : Get(traces[i], "status") = Some("failed")})],
    STATS_END_MARKER>>

\* content.indexOf(marker): the first position, 0 stands for -1
indexOf(content, marker) ==
  IF \E i \in 1..Len(content) : content[i] = marker
  THEN CHOOSE i \in 1..Len(content) :
         content[i] = marker /\ \A j \in 1..(i - 1) : content[j] # marker
  ELSE 0

\* injectSkillStats(skillFilePath, skillName, traces) at instant t: the file after the call
injectSkillStats(file, traces, t) ==
  LET statsBlock == buildStatsBlock(traces, t)
      content == file.chunks
      startIdx == indexOf(content, STATS_START_MARKER)
      endIdx == indexOf(content, STATS_END_MARKER)
      separator == IF Len(content) >= 2 /\ content[Len(content)] = NL /\ content[Len(content) - 1] = NL
                   THEN <<>>
                   ELSE IF Len(content) >= 1 /\ content[Len(content)] = NL THEN <<NL>>
                   ELSE <<NL, NL>>
  IN IF ~file.exists THEN file
     ELSE IF startIdx # 0 /\ endIdx # 0 /\ endIdx > startIdx
     THEN FileOf(SubSeq(content, 1, startIdx - 1) \o statsBlock
                   \o SubSeq(content, endIdx + 1, Len(content)))
     ELSE FileOf(content \o separator \o statsBlock \o <<NL>>)

\* the documents a first call may find: none, an empty one, text with and
\* without a final newline, text that quotes the end marker, text that quotes
\* the start marker
SampleDocs ==
  { NoFile,
    FileOf(<<>>),
    FileOf(<<[text |-> "# My Skill"], NL>>),
    FileOf(<<[text |-> "# My Skill"], NL, NL, [text |-> "Does stuff."]>>),
    FileOf(<<[text |-> "# My Skill"], NL, STATS_END_MARKER, NL>>),
    FileOf(<<[text |-> "see "], STATS_START_MARKER, NL, [text |-> "notes"], NL>>) }

InitDoc ==
  /\ now = 0
  /\ traceFiles = [d \in Days |-> NoFile]
  /\ wraps = [w \in 1..MaxWraps |-> IdleWrap]
  /\ logs = [f \in {SessionIds[i] : i \in 1..Len(SessionIds)} |-> <<>>]
  /\ imp = NoImport
  /\ lastOp = NoOp
  /\ memFiles = [d \in MemDays |-> NoFile]
  /\ crons = [c \in 1..MaxCrons |-> IdleWrap]
  /\ config = NoFile
  /\ pending = [pc |-> "idle", day |-> 0, recs |-> <<>>]
  /\ doc \in SampleDocs

\* injectSkillStats(skillFilePath, skillName, traces); lastOp.arg keeps the
\* content the call found
InjectSkillStats(traces) ==
  /\ Len(doc.chunks) + 6 <= MaxDocLen
  /\ doc' = injectSkillStats(doc, traces, now)
  /\ lastOp' = [NoOp EXCEPT !.op = "injectSkillStats", !.arg = doc.chunks, !.n = Len(traces)]
  /\ UNCHANGED <<now, traceFiles, wraps, logs, imp, memFiles, crons, config, pending>>

NextDoc ==
  \/ Tick
  \/ \E traces \in {<<>>, <<SampleTrace("1", "sk", "success")>>,
                     <<SampleTrace("1", "sk", "success"), SampleTrace("2", "sk", "failed")>>} :
       InjectSkillStats(traces)
SpecDoc == InitDoc /\ [][NextDoc]_vars

\* ---- the init configuration and shouldWrap
\* what readInitConfig returns when there is no usable file
Null == [null |-> TRUE]

\* readInitConfig(rootDir): null when the file is absent or JSON.parse throws;
\* line breaks around the JSON text are white space to the parser
readInitConfig(file) ==
  IF ~file.exists THEN Null
  ELSE LET texts == SelectSeq(file.chunks, LAMBDA c : c # NL)
       IN IF Len(texts) = 1 /\ IsJsonText(texts[1]) THEN JsonParse(texts[1]) ELSE Null

\* a gate that does not look at the initialized flag
shouldWrap_IgnoreInitialized(file, skillName) ==
  LET cfg == readInitConfig(file)
  IN IF cfg = Null THEN TRUE
     ELSE (\E i \in 1..Len(Get(cfg, "wrappedSkills")[1]) : Get(cfg, "wrappedSkills")[1][i] = skillName)

\* shouldWrap(skillName, rootDir)
shouldWrap(file, skillName) ==
  LET cfg == readInitConfig(file)
  IN IF cfg = Null \/ Get(cfg, "initialized") # Some(TRUE) THEN TRUE
     ELSE (\E i \in 1..Len(Get(cfg, "wrappedSkills")[1]) : Get(cfg, "wrappedSkills")[1][i] = skillName)

\* configurations of the declared type
ConfigArgs ==
  { [wrappedSkills |-> Some(w), excludedSkills |-> Some(e), initialized |-> Some(i)] :
      w \in {<<>>, <<"skill-a">>, <<"skill-b">>, <<"skill-a", "skill-c">>},
      e \in {<<>>, <<"skill-b">>, <<"skill-a">>},
      i \in BOOLEAN }

\* writeInitConfig(config, rootDir)
WriteInitConfig(cfg) ==
  /\ config' = FileOf(<<JsonStringify(cfg), NL>>)
  /\ lastOp' = [NoOp EXCEPT !.op = "writeInitConfig", !.arg = cfg]
  /\ UNCHANGED <<now, traceFiles, wraps, logs, imp, memFiles, crons, pending, doc>>

\* the file is removed, or is left with content that is not JSON
ReplaceConfig(file) ==
  /\ config' = file
  /\ lastOp' = [NoOp EXCEPT !.op = "replaceConfig"]
  /\ UNCHANGED <<now, traceFiles, wraps, logs, imp, memFiles, crons, pending, doc>>

\* clawtrace.shouldWrap(skillName, rootDir)
ShouldWrap(skillName) ==
  /\ lastOp' = [NoOp EXCEPT !.op = "shouldWrap", !.id = LitId(skillName),
                            !.ret = IF shouldWrap(config, skillName) THEN "true" ELSE "false"]
  /\ UNCHANGED <<now, traceFiles, wraps, logs, imp, memFiles, crons, config, pending, doc>>

NextConfig ==
  \/ \E cfg \in ConfigArgs : WriteInitConfig(cfg)
  \/ \E file \in {NoFile, FileOf(<<>>), FileOf(<<[text |-> "{"]>>),
                  FileOf(<<JsonStringify([initialized |-> Some(TRUE)]), [text |-> "}"], NL>>)} :
       ReplaceConfig(file)
  \/ \E name \in {"skill-a", "skill-b", "skill-c", "unknown-skill"} : ShouldWrap(name)
SpecConfig == Init /\ [][NextConfig]_vars

\* one wrap call, recordTrace and the importer on one store: the log directory
\* holds one line, dated on the second day
TimingDir ==
  [f \in {SessionIds[i] : i \in 1..Len(SessionIds)} |->
     IF f = SessionIds[1] THEN <<JsonLine("skill-b", [ts |-> NumV(TicksPerDay)])>> ELSE <<>>]

InitTiming ==
  /\ now = 0
  /\ traceFiles = [d \in Days |-> NoFile]
  /\ wraps = [w \in 1..MaxWraps |-> IdleWrap]
  /\ logs = TimingDir
  /\ imp = NoImport
  /\ lastOp = NoOp
  /\ InitRest

NextTiming ==
  \/ Tick
  \/ HasRoom(MaxRecords) /\ WrapStart(1, "r0")
  \/ \E out \in Outcomes, io \in {"none", "first", "all"} : WrapSettle(1, out, io)
  \/ \E p \in RecordParams : HasRoom(MaxRecords) /\ RecordTrace("r0", p)
  \/ Import(Undef)
SpecTiming == InitTiming /\ [][NextTiming]_vars

\* ================================================================= claims
\* the records of day d's partition
Partition(d) == readLines(traceFiles[d]).recs

Terminal(rec) == Get(rec, "status") \in {Some("success"), Some("failed")}
HasTiming(rec) == Get(rec, "endTime") # Undef /\ Get(rec, "durationMs") # Undef

\* the positions of day d's partition that hold a record with this id
Holding(d, id) == {i \in 1..Len(Partition(d)) : Get(Partition(d)[i], "id") = Some(id)}

\* C1: once a wrap call has settled, the partition its running trace was
\* appended to holds exactly one trace with the generated id, and that trace
\* has status success or failed with endTime and durationMs present.
C1_WrapLeavesOneTerminalTrace ==
  lastOp.op = "wrapSettle" =>
    LET w == wraps[lastOp.w]
    IN /\ Cardinality(Holding(w.day, w.id)) = 1
       /\ \A i \in Holding(w.day, w.id) :
            Terminal(Partition(w.day)[i]) /\ HasTiming(Partition(w.day)[i])

\* C2: wrap hands on the outcome of the work: it resolves with the value the
\* work resolved with, and it rejects with the error the work rejected with
\* after the trace has been recorded as failed with that error's message.
C2_WrapKeepsOutcome ==
  lastOp.op = "wrapSettle" =>
    LET w == wraps[lastOp.w]
    IN IF w.out.kind = "value"
       THEN w.res = [settle |-> "resolved", val |-> w.out]
       ELSE /\ w.res = [settle |-> "rejected", val |-> w.out]
            /\ \E i \in Holding(w.day, w.id) :
                 /\ Get(Partition(w.day)[i], "status") = Some("failed")
                 /\ Get(Partition(w.day)[i], "error") = Some(w.out.text)

\* every property name a stored record can carry
AllFields == {"id", "skillName", "sessionLabel", "startTime", "endTime", "durationMs", "status",
              "error", "cost", "toolCalls", "subAgents", "parentId", "_type"}

RecordsOf(file) == readLines(file).recs

\* C4: a successful updateTrace(id, fields) changes one record only, a record
\* with that id, and on it only the fields given; the other records, their
\* number and order, and the other partitions stay as they were.
C4_UpdateChangesOnlyGivenFields ==
  [][(lastOp'.op = "updateTrace" /\ lastOp'.ret = "true") =>
       LET d == lastOp'.day
           before == RecordsOf(traceFiles[d])
           after == RecordsOf(traceFiles'[d])
           changed == {i \in 1..Len(before) : after[i] # before[i]}
       IN /\ Len(after) = Len(before)
          /\ Cardinality(changed) <= 1
          /\ \A i \in changed :
               /\ Get(before[i], "id") = Some(lastOp'.id)
               /\ \A k \in AllFields \ DOMAIN lastOp'.arg : Get(after[i], k) = Get(before[i], k)
          /\ \A e \in Days \ {d} : traceFiles'[e] = traceFiles[e]]_vars

\* an update has changed the status of the second record of a partition and
\* left it its skillName and startTime
C4_Witness ==
  /\ lastOp.op = "updateTrace" /\ lastOp.ret = "true"
  /\ Len(Partition(lastOp.day)) = 2
  /\ Get(Partition(lastOp.day)[2], "id") = Some(lastOp.id)
  /\ Get(Partition(lastOp.day)[1], "id") # Some(lastOp.id)
  /\ Get(Partition(lastOp.day)[2], "status") = Some("success")
  /\ Get(Partition(lastOp.day)[2], "durationMs") = Some(2)
  /\ Get(Partition(lastOp.day)[2], "skillName") = Some("skill-a")

\* C5: updateTrace for an id that no record of the target partition has
\* returns false and leaves every file as it was: nothing written or created.
C5_UpdateMissReturnsFalse ==
  [][(/\ lastOp'.op = "updateTrace"
      /\ \A i \in 1..Len(RecordsOf(traceFiles[lastOp'.day])) :
           Get(RecordsOf(traceFiles[lastOp'.day])[i], "id") # Some(lastOp'.id))
     => lastOp'.ret = "false" /\ traceFiles' = traceFiles]_vars

\* an update of an unknown id came back false on a day that has no file
C5_Witness ==
  /\ lastOp.op = "updateTrace" /\ lastOp.ret = "false"
  /\ lastOp.id = LitId("nonexistent")
  /\ ~traceFiles[lastOp.day].exists
  /\ \E d \in Days : Len(Partition(d)) > 0

\* C6: an append adds the appended record, every field intact, at the end of
\* what a full read of the partition returns, and changes nothing a read
\* returned before: so reads return the appended records in insertion order.
C6_AppendReadRoundTrip ==
  [][lastOp'.op = "appendTrace" =>
       LET d == lastOp'.day
           before == readLines(traceFiles[d])
           after == readLines(traceFiles'[d])
       IN /\ after.ok
          /\ Len(after.recs) = Len(before.recs) + 1
          /\ \A i \in 1..Len(before.recs) : after.recs[i] = before.recs[i]
          /\ \A k \in AllFields : Get(after.recs[Len(after.recs)], k) = Get(lastOp'.arg, k)
          /\ \A e \in Days \ {d} : traceFiles'[e] = traceFiles[e]]_vars

\* a second record was appended to a partition, one written with an explicit
\* undefined sessionLabel, and both are read back
C6_Witness ==
  /\ lastOp.op = "appendTrace"
  /\ "sessionLabel" \in DOMAIN lastOp.arg
  /\ Len(Partition(lastOp.day)) = 2
  /\ Get(Partition(lastOp.day)[2], "id") = Some(LitId("t2"))
  /\ Get(Partition(lastOp.day)[1], "id") = Some(LitId("t1"))

\* C3: an import run over a log directory that holds events writes a nonzero
\* number of traces when it is the first run, and otherwise exactly as many as
\* there are events (distinct by source log, timestamp and skill name) that
\* were not in the directory at the previous run: 0 when it is unchanged.
C3_ImportIdempotent ==
  (/\ lastOp.op = "import" /\ lastOp.ret = "number"
   /\ imp.since = Undef /\ imp.prevSince = Undef)
  => IF imp.prevRan THEN lastOp.n = Cardinality(imp.events \ imp.prevEvents)
     ELSE imp.events # {} => lastOp.n > 0

\* every stored record, as <<day, position>>
StoredAt == {<<d, i>> \in Days \X (1..(MaxRecords + 1)) : i <= Len(Partition(d))}

\* C8: whatever import runs have happened, no stable id of an imported trace
\* occurs twice in the store, all partitions taken together.
C8_NoDuplicateImport ==
  \A p \in StoredAt, q \in StoredAt :
    (/\ p # q
     /\ Get(Partition(p[1])[p[2]], "id") = Get(Partition(q[1])[q[2]], "id"))
    => Get(Partition(p[1])[p[2]], "id")[1].kind # "import"

\* every stored record has timing that follows its status
TimingFollowsStatus(rec) ==
  /\ Get(rec, "status") = Some("running") =>
       (Get(rec, "endTime") = Undef /\ Get(rec, "durationMs") = Undef)
  /\ Terminal(rec) => HasTiming(rec)

\* the record at position p = <<day, index>> before and after a step
RecordAt(files, p) == readLines(files[p[1]]).recs[p[2]]

\* C7 as stated: in every reachable state of the store every trace with status
\* running has neither endTime nor durationMs and every trace with status
\* success or failed has both; once present, endTime and durationMs of a
\* stored trace are never removed.
C7_TimingFollowsStatusEverywhere ==
  /\ [](\A p \in StoredAt : TimingFollowsStatus(RecordAt(traceFiles, p)))
  /\ [][\A p \in StoredAt :
          /\ Get(RecordAt(traceFiles, p), "endTime") # Undef
               => Get(RecordAt(traceFiles', p), "endTime") # Undef
          /\ Get(RecordAt(traceFiles, p), "durationMs") # Undef
               => Get(RecordAt(traceFiles', p), "durationMs") # Undef]_vars

\* the wrap calls that have appended their trace
Started == {w \in 1..MaxWraps : wraps[w].pc # "idle"}
WrapRecord(files, w) == RecordAt(files, <<wraps[w].day, wraps[w].pos>>)

\* C7 amended: the trace a wrap call appended has neither endTime nor
\* durationMs while its status is running and has both once its status is
\* success or failed, and no later wrap, recordTrace or import step removes
\* either of them.
C7_WrapTimingFollowsStatus ==
  /\ [](\A w \in Started : TimingFollowsStatus(WrapRecord(traceFiles, w)))
  /\ [][\A w \in Started :
          /\ Get(WrapRecord(traceFiles, w), "endTime") # Undef
               => Get(WrapRecord(traceFiles', w), "endTime") # Undef
          /\ Get(WrapRecord(traceFiles, w), "durationMs") # Undef
               => Get(WrapRecord(traceFiles', w), "durationMs") # Undef]_vars

\* a wrap call has settled and its trace is terminal with both timing fields,
\* next to a trace an import wrote
C7_Witness ==
  /\ wraps[1].pc = "settled"
  /\ Terminal(WrapRecord(traceFiles, 1)) /\ HasTiming(WrapRecord(traceFiles, 1))
  /\ \E p \in StoredAt : Get(RecordAt(traceFiles, p), "id")[1].kind = "import"

\* the traces of a partition that name parentId as their parent, in file order
ChildrenOf(all, parentId) == SelectSeq(all, LAMBDA t : Get(t, "parentId") = Some(parentId))

\* nodes is the list of the children of parentId: one node per child, in file
\* order, with the child's name, timing and status, whose children are the
\* list of the children of the child's id
RECURSIVE IsChildList(_, _, _)
IsChildList(all, nodes, parentId) ==
  LET kids == ChildrenOf(all, parentId)
  IN /\ Len(nodes) = Len(kids)
     /\ \A i \in 1..Len(nodes) :
          /\ nodes[i].agentName = Get(kids[i], "skillName")
          /\ nodes[i].startTime = Get(kids[i], "startTime")
          /\ nodes[i].endTime = Get(kids[i], "endTime")
          /\ nodes[i].durationMs = Get(kids[i], "durationMs")
          /\ nodes[i].status = Get(kids[i], "status")
          /\ IsChildList(all, nodes[i].children, Get(kids[i], "id")[1])

\* the first trace of a partition with this id has a non-empty subAgents list
HasExplicit(all, id) ==
  /\ findIndex(all, id) # 0
  /\ Get(all[findIndex(all, id)], "subAgents") # Undef
  /\ Get(all[findIndex(all, id)], "subAgents") # Some(<<>>)

\* C9: when getTraceTree(id) returns, the result is the root trace's embedded
\* subAgents list unchanged if that list is present and non-empty, and
\* otherwise one node per trace of the same partition whose parentId is id,
\* each with the child's name, timing and status and with the tree built the
\* same way for the child's id as its children.
C9_TreeFollowsParentIds ==
  (lastOp.op = "getTraceTree" /\ lastOp.ret = "tree") =>
    IF HasExplicit(Partition(lastOp.day), lastOp.id)
    THEN Some(lastOp.arg) =
           Get(Partition(lastOp.day)[findIndex(Partition(lastOp.day), lastOp.id)], "subAgents")
    ELSE IsChildList(Partition(lastOp.day), lastOp.arg, lastOp.id)

\* a tree was built from parentId references and has a grandchild in it
C9_Witness ==
  /\ lastOp.op = "getTraceTree" /\ lastOp.ret = "tree"
  /\ ~HasExplicit(Partition(lastOp.day), lastOp.id)
  /\ \E i \in 1..Len(lastOp.arg) : Len(lastOp.arg[i].children) > 0

\* C10: getTraceTree returns a tree for every content of the partition, also
\* when the parentId references form a cycle.
C10_TreeTerminates ==
  lastOp.op = "getTraceTree" => lastOp.ret = "tree"

\* C20: the completion update of a wrap call is applied to the day-partition
\* the running trace was appended to, and finds it there, also when the work
\* finishes on a later calendar day than it started on.
C20_CompletionTargetsStartPartition ==
  lastOp.op = "wrapSettle" =>
    /\ lastOp.day = wraps[lastOp.w].day
    /\ lastOp.ret = "true"

\* how often x occurs in a list
Count(list, x) == Cardinality({i \in 1..Len(list) : list[i] = x})

\* two lists hold the same elements, each as often
SameElements(a, b) ==
  /\ Len(a) = Len(b)
  /\ \A i \in 1..Len(a) : Count(a, a[i]) = Count(b, a[i])

\* a list of traces is in ascending order of the instants of startTime
AscendingByStart(list) ==
  \A i \in 1..Len(list), j \in 1..Len(list) :
    i < j => DateOf(Get(list[i], "startTime")[1]) <= DateOf(Get(list[j], "startTime")[1])

\* the traces of a list that carry this label (Undef: no label)
WithLabel(list, label) == SelectSeq(list, LAMBDA r : Get(r, "sessionLabel") = label)

\* the labels present in a list, Undef among them when a trace has none
LabelsIn(list) == {Get(list[i], "sessionLabel") : i \in 1..Len(list)}

\* C11: getSessions returns one group per distinct session label among the
\* traces of the partition and one group for the traces with no label; the
\* group of a label holds exactly the traces with that label in ascending
\* order of startTime, the group without label exactly the traces without
\* label, so that every trace is in exactly one group.
C11_SessionsPartitionByLabel ==
  (lastOp.op = "getSessions" /\ lastOp.ret = "list") =>
    LET recs == Partition(lastOp.day)
        groups == lastOp.arg
    IN /\ Len(groups) = Cardinality(LabelsIn(recs))
       /\ \A label \in LabelsIn(recs) :
            \E i \in 1..Len(groups) :
              /\ groups[i].label = label
              /\ SameElements(groups[i].skills, WithLabel(recs, label))
              /\ label # Undef => AscendingByStart(groups[i].skills)

\* the records of the partitions of the days from first to last, in this order
RECURSIVE RangeRecords(_, _)
RangeRecords(first, last) ==
  IF first > last THEN <<>> ELSE Partition(first) \o RangeRecords(first + 1, last)

\* the positions of a list whose record has this value of a field
Where(list, field, value) == {i \in 1..Len(list) : Get(list[i], field) = value}

\* the sum of a numeric field over positions I of a list, an absent value counting 0
RECURSIVE FieldSum(_, _, _)
FieldSum(list, field, I) ==
  IF I = {} THEN 0
  ELSE LET i == CHOOSE i \in I : TRUE
       IN (IF Get(list[i], field) = Undef THEN 0 ELSE Get(list[i], field)[1])
          + FieldSum(list, field, I \ {i})

\* r is num / den rounded to an integer
IsRounded(r, num, den) == 2 * num - den < 2 * r * den /\ 2 * r * den <= 2 * num + den

\* C12: getRankings returns one entry per distinct skill name among the
\* traces of the range; its callCount is the number of these traces, its
\* successRate the rounded percentage of successes among them, its
\* avgDurationMs the rounded mean of the durations present, absent when there
\* is none; the entries are in descending order of callCount.
C12_RankingsAggregatePerSkill ==
  (lastOp.op = "getRankings" /\ lastOp.ret = "list") =>
    LET recs == RangeRecords(lastOp.day, lastOp.n)
        entries == lastOp.arg
        names == {Get(recs[i], "skillName") : i \in 1..Len(recs)}
    IN /\ Len(entries) = Cardinality(names)
       /\ \A name \in names :
            \E i \in 1..Len(entries) :
              LET group == Where(recs, "skillName", name)
                  timed == {j \in group : Get(recs[j], "durationMs") # Undef}
              IN /\ entries[i].skillName = name
                 /\ entries[i].callCount = Cardinality(group)
                 /\ IsRounded(entries[i].successRate,
                              100 * Cardinality(group \cap Where(recs, "status", Some("success"))),
                              Cardinality(group))
                 /\ IF timed = {} THEN entries[i].avgDurationMs = Undef
                    ELSE /\ entries[i].avgDurationMs # Undef
                         /\ IsRounded(entries[i].avgDurationMs[1],
                                      FieldSum(recs, "durationMs", timed), Cardinality(timed))
       /\ \A i \in 1..Len(entries), j \in 1..Len(entries) :
            i < j => entries[i].callCount >= entries[j].callCount

\* skill-a with two successes of three calls is ranked above skill-b with one call
C12_Witness ==
  /\ lastOp.op = "getRankings" /\ lastOp.ret = "list"
  /\ Len(lastOp.arg) = 2
  /\ lastOp.arg[1].skillName = Some("skill-a")
  /\ lastOp.arg[1].callCount = 3 /\ lastOp.arg[1].successRate = 67
  /\ lastOp.arg[1].avgDurationMs = Some(2)
  /\ lastOp.arg[2].callCount = 1 /\ lastOp.arg[2].successRate = 100
  /\ lastOp.arg[2].avgDurationMs = Undef

\* C13: getDailySummary and getStatsRange report totalSkills as the number of
\* traces read, successCount, failedCount and runningCount as the number of
\* them with each status, and totalCost as the sum of their costs, an absent
\* cost counting 0; all are 0 for an empty partition or range, and no error
\* is raised.
C13_SummaryCountsAndCost ==
  lastOp.op \in {"getDailySummary", "getStatsRange"} =>
    LET recs == RangeRecords(lastOp.day, lastOp.n)
        sum == lastOp.arg
    IN /\ lastOp.ret = "summary"
       /\ sum.traces = recs
       /\ sum.totalSkills = Len(recs)
       /\ sum.successCount = Cardinality(Where(recs, "status", Some("success")))
       /\ sum.failedCount = Cardinality(Where(recs, "status", Some("failed")))
       /\ sum.runningCount = Cardinality(Where(recs, "status", Some("running")))
       /\ sum.totalCost = FieldSum(recs, "cost", 1..Len(recs))
       /\ recs = <<>> =>
            /\ sum.totalSkills = 0 /\ sum.successCount = 0 /\ sum.failedCount = 0
            /\ sum.runningCount = 0 /\ sum.totalCost = 0

\* a range over two partitions was summed up: a cost, a trace without cost and
\* all three statuses are in it
C13_Witness ==
  /\ lastOp.op = "getStatsRange" /\ lastOp.ret = "summary"
  /\ Len(Partition(0)) > 0 /\ Len(Partition(MaxDay)) > 0
  /\ lastOp.arg.totalSkills = 3 /\ lastOp.arg.totalCost = 3
  /\ lastOp.arg.successCount = 1 /\ lastOp.arg.failedCount = 1 /\ lastOp.arg.runningCount = 1

\* the records of day d's partition in a given directory state
PartitionOf(files, d) == readLines(files[d]).recs

\* the step appends exactly one record, to day d, and changes nothing else
AppendsOne(d) ==
  /\ Len(PartitionOf(traceFiles', d)) = Len(PartitionOf(traceFiles, d)) + 1
  /\ SubSeq(PartitionOf(traceFiles', d), 1, Len(PartitionOf(traceFiles, d)))
       = PartitionOf(traceFiles, d)
  /\ \A e \in Days \ {d} : traceFiles'[e] = traceFiles[e]

\* the last record of day d after the step
Appended(d) == PartitionOf(traceFiles', d)[Len(PartitionOf(traceFiles', d))]

MemPartition(d) == readLines(memFiles[d]).recs

\* C15: readMemoryChangesLastHours(h) with h of at most 24 hours returns every
\* memory change whose timestamp is at or after now minus h and which is
\* stored in the partition of its timestamp's date, and returns no change
\* whose timestamp is before now minus h.
C15_WindowReturnsRecentChanges ==
  (lastOp.op = "readMemoryChangesLastHours" /\ lastOp.n <= TicksPerDay) =>
    /\ lastOp.ret = "list"
    /\ \A d \in MemDays : \A i \in 1..Len(MemPartition(d)) :
         (/\ DateOf(Get(MemPartition(d)[i], "time")[1]) >= now - lastOp.n
          /\ dateKey(DateOf(Get(MemPartition(d)[i], "time")[1])) = d)
         => Count(lastOp.arg, MemPartition(d)[i]) >= 1
    /\ \A i \in 1..Len(lastOp.arg) : DateOf(Get(lastOp.arg[i], "time")[1]) >= now - lastOp.n

\* a window of 24 hours returned a change of yesterday's partition and left
\* out a change of more than two days ago
C15_Witness ==
  /\ lastOp.op = "readMemoryChangesLastHours" /\ lastOp.n = TicksPerDay
  /\ Len(lastOp.arg) = 1
  /\ dateKey(DateOf(Get(lastOp.arg[1], "time")[1])) = dateKey(now) - 1
  /\ \E d \in MemDays : d < dateKey(now) - 1 /\ Len(MemPartition(d)) = 1

\* the number of records in the partitions of the days from first to d - 1
RangeOffset(first, d) ==
  Cardinality({<<e, j>> \in (first..(d - 1)) \X (1..(MaxQueryRecords + 1)) :
                 j <= Len(Partition(e))})

\* C16: readTracesDateRange(start, end) returns exactly the records of the
\* partitions of the days from start's to end's, the partitions in ascending
\* order and each partition's records in insertion order: record i of day d is
\* at the position after all records of the earlier days of the range, and the
\* list holds nothing else (it is empty when those partitions hold nothing).
C16_RangeReadsPartitionsInOrder ==
  lastOp.op = "readTracesDateRange" =>
    /\ lastOp.ret = "list"
    /\ Len(lastOp.arg) = RangeOffset(lastOp.day, lastOp.n + 1)
    /\ \A d \in lastOp.day..lastOp.n : \A i \in 1..Len(Partition(d)) :
         lastOp.arg[RangeOffset(lastOp.day, d) + i] = Partition(d)[i]

\* a range over two days returned three records, two of one day in the order
\* they were appended, while a range over the first day alone leaves the
\* second day's out
C16_Witness ==
  /\ lastOp.op = "readTracesDateRange" /\ lastOp.day < lastOp.n
  /\ Len(lastOp.arg) = 3
  /\ Len(Partition(lastOp.day)) \in {1, 2} /\ Len(Partition(lastOp.n)) \in {1, 2}

\* the traces of a list that belong to this skill
OfSkill(list, name) == SelectSeq(list, LAMBDA r : Get(r, "skillName") = Some(name))

\* a list of traces has the most recent start first
DescendingByStart(list) ==
  \A i \in 1..Len(list), j \in 1..Len(list) :
    i < j => DateOf(Get(list[i], "startTime")[1]) >= DateOf(Get(list[j], "startTime")[1])

\* C17: getSkillTraces(name) returns exactly the traces of the partition whose
\* skillName is name, the most recent start first, and getLastSkillTrace(name)
\* returns a trace of that skill that no other trace of the skill starts after.
C17_SkillTracesMostRecentFirst ==
  /\ lastOp.op = "getSkillTraces" =>
       /\ lastOp.ret = "list"
       /\ SameElements(lastOp.arg, OfSkill(Partition(lastOp.day), lastOp.id.s))
       /\ DescendingByStart(lastOp.arg)
  /\ (lastOp.op = "getLastSkillTrace" /\ OfSkill(Partition(lastOp.day), lastOp.id.s) # <<>>) =>
       /\ lastOp.ret = "trace"
       /\ Count(OfSkill(Partition(lastOp.day), lastOp.id.s), lastOp.arg[1]) >= 1
       /\ \A i \in 1..Len(OfSkill(Partition(lastOp.day), lastOp.id.s)) :
            DateOf(Get(OfSkill(Partition(lastOp.day), lastOp.id.s)[i], "startTime")[1])
              <= DateOf(Get(lastOp.arg[1], "startTime")[1])

\* no trace of the partition has this id / names it as its parent
NoTraceHasId(list, id) == \A i \in 1..Len(list) : Get(list[i], "id") # Some(id)
NoTraceNames(list, id) == \A i \in 1..Len(list) : Get(list[i], "parentId") # Some(id)

\* the label addresses no session: no trace carries it, and for 'default' no
\* trace is without label
UnknownLabel(list, label) ==
  /\ WithLabel(list, Some(label)) = <<>>
  /\ label = "default" => WithLabel(list, Undef) = <<>>

\* the misses of the store reads, of the session and skill lookups and of updateTrace
MissesOutsideTree ==
  /\ (lastOp.op = "readTraces" /\ ~traceFiles[lastOp.day].exists) =>
       lastOp.ret = "list" /\ lastOp.arg = <<>>
  /\ (lastOp.op = "getSession" /\ UnknownLabel(Partition(lastOp.day), lastOp.id.s)) =>
       lastOp.ret = "undefined"
  /\ (lastOp.op = "getLastSkillTrace" /\ OfSkill(Partition(lastOp.day), lastOp.id.s) = <<>>) =>
       lastOp.ret = "undefined"
  /\ (lastOp.op = "getSkillTraces" /\ OfSkill(Partition(lastOp.day), lastOp.id.s) = <<>>) =>
       lastOp.ret = "list" /\ lastOp.arg = <<>>
  /\ (lastOp.op = "updateTrace" /\ NoTraceHasId(Partition(lastOp.day), lastOp.id)) =>
       lastOp.ret = "false"

\* C18 as stated: every lookup for something the partition does not hold
\* returns the empty list, undefined or false and does not throw; getTraceTree
\* for an id that no trace has returns the empty list.
C18_MissReturnsEmpty ==
  /\ MissesOutsideTree
  /\ (lastOp.op = "getTraceTree" /\ NoTraceHasId(Partition(lastOp.day), lastOp.id)) =>
       lastOp.ret = "tree" /\ lastOp.arg = <<>>

\* C18: every lookup for something the partition does not hold returns the
\* empty list, undefined or false and does not throw; getTraceTree for an id
\* that no trace has returns the empty list when no trace names that id as
\* its parentId.
C18_MissReturnsEmptyUnlessReferenced ==
  /\ MissesOutsideTree
  /\ (/\ lastOp.op = "getTraceTree"
      /\ NoTraceHasId(Partition(lastOp.day), lastOp.id)
      /\ NoTraceNames(Partition(lastOp.day), lastOp.id)) =>
       lastOp.ret = "tree" /\ lastOp.arg = <<>>

\* getTraceTree was asked for an id that no trace has or names, on a
\* partition that holds a trace with another parent, and returned the empty list
C18_Witness ==
  /\ lastOp.op = "getTraceTree" /\ lastOp.ret = "tree" /\ lastOp.arg = <<>>
  /\ NoTraceHasId(Partition(lastOp.day), lastOp.id)
  /\ ~NoTraceNames(Partition(lastOp.day), LitId("ghost"))
  /\ lastOp.id = LitId("nonexistent")

\* the configuration file holds one JSON object, with this value of initialized
ConfigIsObject ==
  /\ config.exists /\ Len(config.chunks) = 2
  /\ IsJsonText(config.chunks[1]) /\ config.chunks[2] = NL
ConfigInitialized == ConfigIsObject /\ config.chunks[1].json.initialized

C21_ResolvedWorkNeverFailedTrace ==
  \A w \in 1..MaxWraps :
    (wraps[w].pc = "settled" /\ wraps[w].out.kind = "value") =>
      \A d \in Days : \A i \in Holding(d, wraps[w].id) :
        /\ Get(Partition(d)[i], "status") # Some("failed")
        /\ Get(Partition(d)[i], "error") = Undef

\* C22: once every wrap call that was started has settled, the partition each
\* one appended to holds its trace exactly once, with the status and the
\* error message of its own outcome.
C22_ConcurrentWrapsKeepTheirTraces ==
  (Started # {} /\ \A w \in Started : wraps[w].pc = "settled") =>
    \A w \in Started :
      /\ Cardinality(Holding(wraps[w].day, wraps[w].id)) = 1
      /\ \A i \in Holding(wraps[w].day, wraps[w].id) :
           /\ Get(Partition(wraps[w].day)[i], "status") =
                Some(IF wraps[w].out.kind = "value" THEN "success" ELSE "failed")
           /\ Get(Partition(wraps[w].day)[i], "error") =
                (IF wraps[w].out.kind = "value" THEN Undef ELSE Some(ErrorText(wraps[w].out)))

\* C23: the write of an updateTrace puts back the records it read, with its
\* own change, whatever the file holds by then: every record appended and
\* every change made between its read and its write is gone afterwards.
C23_RewriteRestoresTheReadRecords ==
  [][pending.pc = "read" /\ pending'.pc = "idle" =>
       RecordsOf(traceFiles'[pending.day]) = pending.recs]_vars

\* a write has just replaced a partition that held one more record than the
\* writer had read: the appended trace is lost
C23_Witness ==
  /\ lastOp.op = "updateRewrite"
  /\ Len(lastOp.arg) = Len(Partition(lastOp.day)) + 1
  /\ \E i \in 1..Len(lastOp.arg) :
       \A j \in 1..Len(Partition(lastOp.day)) :
         Get(Partition(lastOp.day)[j], "id") # Get(lastOp.arg[i], "id")

\* the running trace a wrap call appended, as the partition holds it
RunningTraceOf(files, w) ==
  /\ wraps[w].pos \in 1..Len(RecordsOf(files[wraps[w].day]))
  /\ Get(WrapRecord(files, w), "id") = Some(wraps[w].id)
  /\ Get(WrapRecord(files, w), "status") = Some("running")
  /\ Get(WrapRecord(files, w), "endTime") = Undef

\* C24: within one wrap call the step that starts the work appends the
\* running trace, at every point while the work is executing the partition
\* holds that trace with status running, no step taken while the work is
\* executing writes the store, and the terminal status appears only in the
\* step in which the work settles.
C24_RunningTraceBracketsTheWork ==
  /\ [](\A w \in {1} : wraps[w].pc = "awaiting" => RunningTraceOf(traceFiles, w))
  /\ [][\A w \in {1} :
          /\ (wraps[w].pc = "idle" /\ wraps'[w].pc = "awaiting") =>
               /\ Len(RecordsOf(traceFiles'[wraps'[w].day])) =
                    Len(RecordsOf(traceFiles[wraps'[w].day])) + 1
               /\ wraps'[w].pos = Len(RecordsOf(traceFiles'[wraps'[w].day]))
          /\ (wraps[w].pc = "awaiting" /\ wraps'[w].pc = "awaiting") =>
               traceFiles' = traceFiles
          /\ traceFiles' # traceFiles => wraps'[w].pc # wraps[w].pc]_vars

\* the work of a wrap is still executing one tick after it started, and the
\* partition of the start day holds its trace as running
C24_Witness ==
  /\ wraps[1].pc = "awaiting" /\ now > wraps[1].startMs
  /\ RunningTraceOf(traceFiles, 1)

\* C25: the traces a daily summary or a range read returns are execution
\* traces: none of them carries the tag of a cron record, and a summary counts
\* only the records of its partitions that are not cron records.
C25_TraceReadsReturnNoCronRecord ==
  /\ (lastOp.op \in {"getDailySummary", "getStatsRange"} /\ lastOp.ret = "summary") =>
       /\ \A i \in 1..Len(lastOp.arg.traces) : Get(lastOp.arg.traces[i], "_type") # Some("cron")
       /\ lastOp.arg.totalSkills =
            Cardinality({i \in 1..Len(RangeRecords(lastOp.day, lastOp.n)) :
                           Get(RangeRecords(lastOp.day, lastOp.n)[i], "_type") # Some("cron")})
  /\ (lastOp.op = "readTracesDateRange" /\ lastOp.ret = "list") =>
       \A i \in 1..Len(lastOp.arg) : Get(lastOp.arg[i], "_type") # Some("cron")

\* every record of day d before the step is at the same position after it
KeepsRecords(d) ==
  LET before == PartitionOf(traceFiles, d)
      after == PartitionOf(traceFiles', d)
  IN /\ Len(after) >= Len(before)
     /\ \A i \in 1..Len(before) : Get(after[i], "id") = Get(before[i], "id")

\* C26: no step of the recorder or the importer makes a partition shorter or
\* moves a record that is already there; a step that appends one trace (the
\* start of a wrap, a recordTrace) adds exactly one record at the end of one
\* partition, and the update a wrap makes when it settles changes the number
\* of records of no partition.
C26_PartitionsOnlyGrow ==
  [][/\ \A d \in Days : traceFiles'[d] # traceFiles[d] => KeepsRecords(d)
     /\ lastOp'.op \in {"wrapStart", "recordTrace"} => AppendsOne(lastOp'.day)
     /\ lastOp'.op = "wrapSettle" =>
          \A d \in Days : traceFiles'[d] # traceFiles[d] =>
            Len(PartitionOf(traceFiles', d)) = Len(PartitionOf(traceFiles, d))]_vars

\* a wrap has settled and updated its trace in a partition that holds another
\* record behind it, and an import has written a trace as well
C26_Witness ==
  /\ lastOp.op = "wrapSettle" /\ Terminal(WrapRecord(traceFiles, 1))
  /\ Len(Partition(wraps[1].day)) > wraps[1].pos
  /\ \E p \in StoredAt : Get(RecordAt(traceFiles, p), "id")[1].kind = "import"

\* the file holds a line that is neither blank nor one JSON text
HasBadLine(file) ==
  /\ file.exists
  /\ \/ \E i \in 1..Len(file.chunks) : "text" \in DOMAIN file.chunks[i]
     \/ \E i \in 1..(Len(file.chunks) - 1) :
          "json" \in DOMAIN file.chunks[i] /\ "json" \in DOMAIN file.chunks[i + 1]

\* C27: readTraces, readCronRecords and updateTrace of a partition throw
\* exactly when its file holds a non-blank line that is not valid JSON, and so
\* does readMemoryChanges for a memory file; an updateTrace that throws leaves
\* every file as it was.
C27_BadLineFailsEveryRead ==
  /\ [](/\ lastOp.op \in {"readTraces", "readCronRecords", "updateTrace"} =>
            (lastOp.ret = "throw" <=> HasBadLine(traceFiles[lastOp.day]))
        /\ lastOp.op = "readMemoryChanges" =>
            (lastOp.ret = "throw" <=> HasBadLine(memFiles[lastOp.day])))
  /\ [][(lastOp'.op = "updateTrace" /\ lastOp'.ret = "throw") => traceFiles' = traceFiles]_vars

\* updateTrace was called for the id of a record that stands in the file
\* before a torn line, and threw
C27_Witness ==
  /\ lastOp.op = "updateTrace" /\ lastOp.ret = "throw" /\ lastOp.id = LitId("t1")
  /\ Len(traceFiles[lastOp.day].chunks) = 3
  /\ traceFiles[lastOp.day].chunks[1] = JsonStringify(SampleTrace("t1", "skill-a", "running"))
  /\ "text" \in DOMAIN traceFiles[lastOp.day].chunks[3]

\* C28: no two records the recorder wrote carry the same id, all partitions
\* taken together, ids generated within one clock tick included.
C28_RecorderIdsUnique ==
  \A p \in StoredAt, q \in StoredAt :
    p # q => Get(RecordAt(traceFiles, p), "id") # Get(RecordAt(traceFiles, q), "id")

\* C29: every stored trace stands in the partition of the UTC date of its
\* startTime.
C29_PartitionIsStartDay ==
  \A p \in StoredAt :
    dateKey(DateOf(Get(RecordAt(traceFiles, p), "startTime")[1])) = p[1]

\* the positions of a document that hold this piece of text
Occurrences(content, piece) == {i \in 1..Len(content) : content[i] = piece}

\* C30: after an injectSkillStats call on an existing document the document
\* holds exactly one start marker, followed by exactly one end marker, with
\* the counts of the traces of that call between them, and what stood before
\* the block (the whole content when there was no block) is still its prefix;
\* a missing file is still missing.
C30_OneBlockAfterInjection ==
  lastOp.op = "injectSkillStats" =>
    IF Len(lastOp.arg) = 0 /\ ~doc.exists THEN doc = NoFile
    ELSE LET starts == Occurrences(doc.chunks, STATS_START_MARKER)
             ends == Occurrences(doc.chunks, STATS_END_MARKER)
             kept == IF indexOf(lastOp.arg, STATS_START_MARKER) = 0 THEN Len(lastOp.arg)
                     ELSE indexOf(lastOp.arg, STATS_START_MARKER) - 1
         IN /\ doc.exists
            /\ Cardinality(starts) = 1 /\ Cardinality(ends) = 1
            /\ \A i \in starts : /\ i + 2 \in ends
                                 /\ doc.chunks[i + 1].runs = lastOp.n
            /\ SubSeq(doc.chunks, 1, kept) = SubSeq(lastOp.arg, 1, kept)

====
